---- MODULE Spec2Model ----
(***************************************************************************)
(* Verification model of the pinocchio escrow program (Make, Take,         *)
(* Refund).  One action is one execution unit holding one instruction; the *)
(* runtime commits all of its effects or none.  The token-transfer,        *)
(* associated-account and account-creation services are collaborators:     *)
(* each is modelled by the contract of the call the program issues         *)
(* (accounts passed, authority, signer seeds).                             *)
(***************************************************************************)
EXTENDS Integers, Naturals, Sequences, FiniteSets, TLC

\* ---------------------------------------------------------------- bounds
MaxSeed == 1
MaxAmount == 1
MaxBump == 2

\* ------------------------------------------------------ program constants
\* lamports the rent sysvar asks for an account of Escrow::LEN bytes
RentEscrow == 1
\* lamports the associated-account service asks for a token holder
RentHolder == 1
InitLamports == 2
InitAmount == 2

\* ------------------------------------------------------------- identities
NoAddr == << >>
U1 == <<"wallet", "u1">>
U2 == <<"wallet", "u2">>
Users == {U1, U2}
MintA == <<"mint", "A">>
MintB == <<"mint", "B">>
Mints == {MintA, MintB}
TOKEN_ID == <<"program", "token">>
ATA_ID == <<"program", "associated-token">>
SYSTEM_ID == <<"program", "system">>
ESCROW_ID == <<"program", "escrow">>
OtherProgram == <<"program", "other">>
ProgramIds == {TOKEN_ID, ATA_ID, SYSTEM_ID, OtherProgram}

Seeds == 1..MaxSeed
Bumps == 0..MaxBump
Amounts == 0..MaxAmount

Idx(u) == IF u = U1 THEN 1 ELSE 2

\* A derived address is a hash of (seeds, bump, program id); the hash is
\* taken collision free, so the address is the tuple of what was hashed.
\* Some (seeds, bump) land on the curve and yield no address.
OnCurve(maker, seed, bump) == (Idx(maker) + seed + bump) % 3 = 1

create_program_address(maker, seed, bump) ==
    IF OnCurve(maker, seed, bump) THEN NoAddr
    ELSE <<"escrow", maker, seed, bump>>

\* find_program_address: the highest bump whose address is off the curve.
RECURSIVE FindBump(_, _, _)
FindBump(maker, seed, b) ==
    IF ~OnCurve(maker, seed, b) THEN b
    ELSE IF b = 0 THEN 0 - 1
    ELSE FindBump(maker, seed, b - 1)

find_escrow_address(maker, seed) ==
    LET b == FindBump(maker, seed, MaxBump)
    IN  [key |-> create_program_address(maker, seed, b), bump |-> b]

PdaAddrs ==
    {create_program_address(m, s, b) : m \in Users, s \in Seeds, b \in Bumps}
        \ {NoAddr}

\* ------------------------------------------------------------ token holders
Ata(wallet, mint) == <<"ata", wallet, mint>>
\* one holder that is not an associated account (made with InitializeAccount)
AuxHolder == <<"aux">>
\* an address at which no holder ever exists
NilHolder == <<"nil">>
\* the addresses found for the (maker, seed) pairs, where escrows are made
EscrowAddrs == {find_escrow_address(m, s).key : m \in Users, s \in Seeds}
\* the holder addresses drawn for a slot: the users' holders of both assets,
\* the custody holders of asset A, AuxHolder and NilHolder
HolderIds ==
    {Ata(u, m) : u \in Users, m \in Mints}
        \cup {Ata(e, MintA) : e \in EscrowAddrs} \cup {AuxHolder, NilHolder}
NoHolder == [exists |-> FALSE, mint |-> NoAddr, owner |-> NoAddr, amount |-> 0]
Decimals(mint) == IF mint = MintA THEN 6 ELSE 9

\* ----------------------------------------------------------- escrow account
\* crate::state::Escrow: seed, maker, mint_a, mint_b, receive, bump
EscrowLEN == 1
NoAccount == [owner |-> SYSTEM_ID, lamports |-> 0, data |-> << >>]
ZeroEscrow ==
    [seed |-> 0, maker |-> NoAddr, mint_a |-> NoAddr, mint_b |-> NoAddr,
     receive |-> 0, bump |-> 0]

\* Escrow::load / load_mut: the buffer must have the record's length
EscrowLoad(data) ==
    IF Len(data) # EscrowLEN THEN [err |-> "InvalidAccountData", rec |-> ZeroEscrow]
    ELSE [err |-> "Ok", rec |-> data[1]]

\* Escrow::set_inner: writes every field
set_inner(seed, maker, mint_a, mint_b, receive, bump) ==
    [seed |-> seed, maker |-> maker, mint_a |-> mint_a, mint_b |-> mint_b,
     receive |-> receive, bump |-> bump]

\* wallet: lamports of each user; accounts: the accounts at derived
\* addresses; tokens: the token holders; last: the instruction that committed
\* last; deposited: the amount each escrow's Make put in custody (history)
VARIABLES wallet, accounts, tokens, last, deposited
\* vault: the lamport accounts of the two vault programs; clock: the ledger
\* time the clock sysvar reports
VARIABLES vault, clock
\* run: the instruction that is being executed one statement at a time: its
\* position, its accounts and payload, the ledger as it has changed it so
\* far, the data borrows it holds and the sub-operations it has issued
VARIABLES run
vars == <<wallet, accounts, tokens, last, deposited, vault, clock, run>>

\* no instruction is being executed
Idle ==
    [pc |-> 0, op |-> "none", a |-> << >>, d |-> << >>, w |-> << >>,
     loc |-> << >>, borrows |-> {}, issued |-> << >>]

\* the ledger as one value, threaded through the steps of an instruction
World == [wallet |-> wallet, accounts |-> accounts, tokens |-> tokens]

Res(err, w) == [err |-> err, w |-> w]

\* -------------------------------------------------- collaborating services
\* system CreateAccount{from, to, lamports, space, owner}.invoke_signed
CreateAccount(w, from, to, lamports, owner, signed) ==
    IF from \notin signed \/ to \notin signed THEN Res("MissingRequiredSignature", w)
    ELSE IF to \notin PdaAddrs THEN Res("InvalidSeeds", w)
    ELSE IF w.accounts[to] # NoAccount THEN Res("AccountAlreadyInUse", w)
    ELSE IF w.wallet[from] < lamports THEN Res("InsufficientFunds", w)
    ELSE Res("Ok",
             [w EXCEPT !.wallet[from] = @ - lamports,
                       !.accounts[to] = [owner |-> owner, lamports |-> lamports,
                                         data |-> <<ZeroEscrow>>]])

\* associated-account Create{funding_account, account, wallet, mint}.invoke
AtaCreate(w, funding, account, owner, mint, signed) ==
    IF funding \notin signed THEN Res("MissingRequiredSignature", w)
    ELSE IF mint \notin Mints THEN Res("InvalidAccountData", w)
    ELSE IF account # Ata(owner, mint) THEN Res("InvalidSeeds", w)
    ELSE IF w.tokens[account].exists THEN Res("IllegalOwner", w)
    ELSE IF w.wallet[funding] < RentHolder THEN Res("InsufficientFunds", w)
    ELSE Res("Ok",
             [w EXCEPT !.wallet[funding] = @ - RentHolder,
                       !.tokens[account] = [exists |-> TRUE, mint |-> mint,
                                            owner |-> owner, amount |-> 0]])

\* token TransferChecked{from, mint, to, authority, amount, decimals}: the
\* source is checked before the destination
TransferChecked(w, from, mint, to, authority, amount, decimals, signed) ==
    IF ~w.tokens[from].exists THEN Res("InvalidAccountData", w)
    ELSE IF w.tokens[from].mint # mint THEN Res("MintMismatch", w)
    ELSE IF decimals # Decimals(mint) THEN Res("MintDecimalsMismatch", w)
    ELSE IF w.tokens[from].owner # authority THEN Res("OwnerMismatch", w)
    ELSE IF authority \notin signed THEN Res("MissingRequiredSignature", w)
    ELSE IF w.tokens[from].amount < amount THEN Res("InsufficientFunds", w)
    ELSE IF ~w.tokens[to].exists THEN Res("InvalidDestination", w)
    ELSE IF w.tokens[to].mint # mint THEN Res("DestinationMintMismatch", w)
    ELSE IF from = to THEN Res("Ok", w)
    ELSE Res("Ok", [w EXCEPT !.tokens[from].amount = @ - amount,
                             !.tokens[to].amount = @ + amount])

\* token CloseAccount{account, destination, authority}
CloseAccount(w, account, destination, authority, signed) ==
    IF ~w.tokens[account].exists THEN Res("InvalidAccountData", w)
    ELSE IF w.tokens[account].owner # authority THEN Res("OwnerMismatch", w)
    ELSE IF authority \notin signed THEN Res("MissingRequiredSignature", w)
    ELSE IF w.tokens[account].amount # 0 THEN Res("NonNativeHasBalance", w)
    ELSE Res("Ok", [w EXCEPT !.tokens[account] = NoHolder,
                             !.wallet[destination] = @ + RentHolder])

\* system Transfer{from, to, lamports}.invoke_signed, out of an escrow account
Transfer(w, from, to, lamports, signed) ==
    IF from \notin signed THEN Res("MissingRequiredSignature", w)
    ELSE IF w.accounts[from].lamports < lamports THEN Res("InsufficientFunds", w)
    ELSE Res("Ok", [w EXCEPT !.accounts[from].lamports = @ - lamports,
                             !.wallet[to] = @ + lamports])

\* the runtime drops an account left without lamports when the unit commits
Purge(w) ==
    [w EXCEPT !.accounts = [k \in PdaAddrs |->
        IF w.accounts[k].lamports = 0 THEN NoAccount ELSE w.accounts[k]]]

Out(err, at, w) == [err |-> err, at |-> at, w |-> w]

\* Signer::from(&seeds) with seeds [b"escrow", maker, seed_le, bump]: the
\* runtime grants the signature of the address these seeds derive, if any
SignerFrom(maker, seed, bump) ==
    {create_program_address(maker, seed, bump)} \ {NoAddr}

\* ------------------------------------------------------------------- Make
MakeLEN == 24
MakeAccountsLen == 9

\* a decoder that tests the deposit only and lets receive = 0 through
MakeInstructionData_amount_only(d) ==
    IF d.len < MakeLEN THEN "InvalidInstructionData"
    ELSE IF d.amount = 0 THEN "InvalidInstructionData"
    ELSE "Ok"

\* MakeInstructionData::try_from
MakeInstructionData_try_from(d) ==
    IF d.len < MakeLEN THEN "InvalidInstructionData"
    ELSE IF d.receive = 0 \/ d.amount = 0 THEN "InvalidInstructionData"
    ELSE "Ok"

\* a Make binder that does not compare the account-creation service
MakeAccounts_no_system_check(a) ==
    IF a.n # MakeAccountsLen THEN [err |-> "NotEnoughAccountKeys", at |-> "len"]
    ELSE IF a.maker \notin a.signers THEN [err |-> "InvalidAccountOwner", at |-> "signer"]
    ELSE IF a.token_program # TOKEN_ID THEN [err |-> "IncorrectProgramId", at |-> "token_program"]
    ELSE IF a.associated_token_program # ATA_ID
         THEN [err |-> "IncorrectProgramId", at |-> "associated_token_program"]
    ELSE [err |-> "Ok", at |-> "bound"]

\* MakeAccounts::try_from
MakeAccounts_try_from(a) ==
    IF a.n # MakeAccountsLen THEN [err |-> "NotEnoughAccountKeys", at |-> "len"]
    ELSE IF a.maker \notin a.signers THEN [err |-> "InvalidAccountOwner", at |-> "signer"]
    ELSE IF a.token_program # TOKEN_ID THEN [err |-> "IncorrectProgramId", at |-> "token_program"]
    ELSE IF a.associated_token_program # ATA_ID
         THEN [err |-> "IncorrectProgramId", at |-> "associated_token_program"]
    ELSE IF a.system_program # SYSTEM_ID THEN [err |-> "IncorrectProgramId", at |-> "system_program"]
    ELSE [err |-> "Ok", at |-> "bound"]

\* Make::try_from
Make_try_from(a, d) ==
    LET ra == MakeAccounts_try_from(a)
        rd == MakeInstructionData_try_from(d)
    IN  IF ra.err # "Ok" THEN ra
        ELSE IF rd # "Ok" THEN [err |-> rd, at |-> "data"]
        ELSE IF a.escrow # find_escrow_address(a.maker, d.seed).key
             THEN [err |-> "InvalidAccountOwner", at |-> "escrow_key"]
        ELSE [err |-> "Ok", at |-> "bound"]

\* a Make that never writes the bump into the record
Make_process_zero_bump(w, a, d) ==
    LET bump == find_escrow_address(a.maker, d.seed).bump
        signers == SignerFrom(a.maker, d.seed, bump)
        s1 == IF signers = {} THEN Res("InvalidSeeds", w)
              ELSE CreateAccount(w, a.maker, a.escrow, RentEscrow, ESCROW_ID,
                                 a.signers \cup signers)
        s2 == AtaCreate(s1.w, a.maker, a.vault, a.escrow, a.mint_a, a.signers)
        ld == EscrowLoad(s2.w.accounts[a.escrow].data)
        w3 == [s2.w EXCEPT !.accounts[a.escrow].data =
                  <<set_inner(d.seed, a.maker, a.mint_a, a.mint_b, d.receive, 0)>>]
        s4 == TransferChecked(w3, a.maker_ata_a, a.mint_a, a.vault, a.maker,
                              d.amount, Decimals(a.mint_a), a.signers)
    IN  IF s1.err # "Ok" THEN Out(s1.err, "create_account", w)
        ELSE IF s2.err # "Ok" THEN Out(s2.err, "create_holder", w)
        ELSE IF ld.err # "Ok" THEN Out(ld.err, "load", w)
        ELSE IF s4.err # "Ok" THEN Out(s4.err, "deposit", w)
        ELSE Out("Ok", "done", Purge(s4.w))

\* a Make that creates the escrow account and its custody holder only when
\* they do not exist yet, and goes on with the ones it finds
Make_process_init_if_needed(w, a, d) ==
    LET bump == find_escrow_address(a.maker, d.seed).bump
        signers == SignerFrom(a.maker, d.seed, bump)
        s1 == IF signers = {} THEN Res("InvalidSeeds", w)
              ELSE IF w.accounts[a.escrow].owner = ESCROW_ID THEN Res("Ok", w)
              ELSE CreateAccount(w, a.maker, a.escrow, RentEscrow, ESCROW_ID,
                                 a.signers \cup signers)
        s2 == IF s1.w.tokens[a.vault].exists THEN Res("Ok", s1.w)
              ELSE AtaCreate(s1.w, a.maker, a.vault, a.escrow, a.mint_a, a.signers)
        ld == EscrowLoad(s2.w.accounts[a.escrow].data)
        w3 == [s2.w EXCEPT !.accounts[a.escrow].data =
                  <<set_inner(d.seed, a.maker, a.mint_a, a.mint_b, d.receive, bump)>>]
        s4 == TransferChecked(w3, a.maker_ata_a, a.mint_a, a.vault, a.maker,
                              d.amount, Decimals(a.mint_a), a.signers)
    IN  IF s1.err # "Ok" THEN Out(s1.err, "create_account", w)
        ELSE IF s2.err # "Ok" THEN Out(s2.err, "create_holder", w)
        ELSE IF ld.err # "Ok" THEN Out(ld.err, "load", w)
        ELSE IF s4.err # "Ok" THEN Out(s4.err, "deposit", w)
        ELSE Out("Ok", "done", Purge(s4.w))

\* Make::process
Make_process(w, a, d) ==
    LET bump == find_escrow_address(a.maker, d.seed).bump
        signers == SignerFrom(a.maker, d.seed, bump)
        s1 == IF signers = {} THEN Res("InvalidSeeds", w)
              ELSE CreateAccount(w, a.maker, a.escrow, RentEscrow, ESCROW_ID,
                                 a.signers \cup signers)
        s2 == AtaCreate(s1.w, a.maker, a.vault, a.escrow, a.mint_a, a.signers)
        ld == EscrowLoad(s2.w.accounts[a.escrow].data)
        w3 == [s2.w EXCEPT !.accounts[a.escrow].data =
                  <<set_inner(d.seed, a.maker, a.mint_a, a.mint_b, d.receive, bump)>>]
        s4 == TransferChecked(w3, a.maker_ata_a, a.mint_a, a.vault, a.maker,
                              d.amount, Decimals(a.mint_a), a.signers)
    IN  IF s1.err # "Ok" THEN Out(s1.err, "create_account", w)
        ELSE IF s2.err # "Ok" THEN Out(s2.err, "create_holder", w)
        ELSE IF ld.err # "Ok" THEN Out(ld.err, "load", w)
        ELSE IF s4.err # "Ok" THEN Out(s4.err, "deposit", w)
        ELSE Out("Ok", "done", Purge(s4.w))

\* the whole instruction: bind, decode, process; a failure commits nothing
MakeOutcome(w, a, d) ==
    LET b == Make_try_from(a, d)
    IN  IF b.err # "Ok" THEN Out(b.err, b.at, w) ELSE Make_process(w, a, d)

\* ------------------------------------------------------------------- Take
TakeAccountsLen == 12

\* a Take binding that compares the maker but not the two assets
TakeAccounts_no_mint_check(w, a) ==
    IF a.n # TakeAccountsLen THEN [err |-> "NotEnoughAccountKeys", at |-> "len"]
    ELSE IF a.taker \notin a.signers THEN [err |-> "InvalidAccountOwner", at |-> "signer"]
    ELSE IF w.accounts[a.escrow].owner # ESCROW_ID
         THEN [err |-> "InvalidAccountOwner", at |-> "owner"]
    ELSE LET ld == EscrowLoad(w.accounts[a.escrow].data)
         IN  IF ld.err # "Ok" THEN [err |-> ld.err, at |-> "load"]
             ELSE IF ld.rec.maker # a.maker
                  THEN [err |-> "InvalidAccountOwner", at |-> "maker"]
             ELSE [err |-> "Ok", at |-> "bound"]

\* TakeAccounts::try_from
TakeAccounts_try_from(w, a) ==
    IF a.n # TakeAccountsLen THEN [err |-> "NotEnoughAccountKeys", at |-> "len"]
    ELSE IF a.taker \notin a.signers THEN [err |-> "InvalidAccountOwner", at |-> "signer"]
    ELSE IF w.accounts[a.escrow].owner # ESCROW_ID
         THEN [err |-> "InvalidAccountOwner", at |-> "owner"]
    ELSE LET ld == EscrowLoad(w.accounts[a.escrow].data)
         IN  IF ld.err # "Ok" THEN [err |-> ld.err, at |-> "load"]
             ELSE IF ld.rec.maker # a.maker
                  THEN [err |-> "InvalidAccountOwner", at |-> "maker"]
             ELSE IF ld.rec.mint_a # a.mint_a \/ ld.rec.mint_b # a.mint_b
                  THEN [err |-> "InvalidAccountOwner", at |-> "mints"]
             ELSE [err |-> "Ok", at |-> "bound"]

\* a Take that closes the custody holder but leaves the escrow account funded
Take_process_keeps_escrow(w, a) ==
    LET ld == EscrowLoad(w.accounts[a.escrow].data)
        seed == ld.rec.seed
        bump == ld.rec.bump
        receive == ld.rec.receive
        signers == SignerFrom(a.maker, seed, bump)
        signed == a.signers \cup signers
        s1 == TransferChecked(w, a.taker_ata_b, a.mint_b, a.maker_ata_b, a.taker,
                              receive, Decimals(a.mint_b), a.signers)
        vault_amount == s1.w.tokens[a.vault].amount
        s2 == IF signers = {} THEN Res("InvalidSeeds", s1.w)
              ELSE TransferChecked(s1.w, a.vault, a.mint_a, a.taker_ata_a, a.escrow,
                                   vault_amount, Decimals(a.mint_a), signed)
        s3 == CloseAccount(s2.w, a.vault, a.maker, a.escrow, signed)
    IN  IF ld.err # "Ok" THEN Out(ld.err, "load", w)
        ELSE IF s1.err # "Ok" THEN Out(s1.err, "leg_b", w)
        ELSE IF ~s1.w.tokens[a.vault].exists THEN Out("InvalidAccountData", "vault_data", w)
        ELSE IF s2.err # "Ok" THEN Out(s2.err, "leg_a", w)
        ELSE IF s3.err # "Ok" THEN Out(s3.err, "close_holder", w)
        ELSE Out("Ok", "done", Purge(s3.w))

\* Take::process
Take_process(w, a) ==
    LET ld == EscrowLoad(w.accounts[a.escrow].data)
        seed == ld.rec.seed
        bump == ld.rec.bump
        receive == ld.rec.receive
        signers == SignerFrom(a.maker, seed, bump)
        signed == a.signers \cup signers
        s1 == TransferChecked(w, a.taker_ata_b, a.mint_b, a.maker_ata_b, a.taker,
                              receive, Decimals(a.mint_b), a.signers)
        vault_amount == s1.w.tokens[a.vault].amount
        s2 == IF signers = {} THEN Res("InvalidSeeds", s1.w)
              ELSE TransferChecked(s1.w, a.vault, a.mint_a, a.taker_ata_a, a.escrow,
                                   vault_amount, Decimals(a.mint_a), signed)
        s3 == CloseAccount(s2.w, a.vault, a.maker, a.escrow, signed)
        escrow_lamports == s3.w.accounts[a.escrow].lamports
        s4 == Transfer(s3.w, a.escrow, a.maker, escrow_lamports, signed)
    IN  IF ld.err # "Ok" THEN Out(ld.err, "load", w)
        ELSE IF s1.err # "Ok" THEN Out(s1.err, "leg_b", w)
        ELSE IF ~s1.w.tokens[a.vault].exists THEN Out("InvalidAccountData", "vault_data", w)
        ELSE IF s2.err # "Ok" THEN Out(s2.err, "leg_a", w)
        ELSE IF s3.err # "Ok" THEN Out(s3.err, "close_holder", w)
        ELSE IF s4.err # "Ok" THEN Out(s4.err, "close_escrow", w)
        ELSE Out("Ok", "done", Purge(s4.w))

TakeOutcome(w, a) ==
    LET b == TakeAccounts_try_from(w, a)
    IN  IF b.err # "Ok" THEN Out(b.err, b.at, w) ELSE Take_process(w, a)

\* ----------------------------------------------------------------- Refund
RefundAccountsLen == 7

\* a Refund binding that does not ask the maker slot to have signed
RefundAccounts_no_signer_check(w, a) ==
    IF a.n # RefundAccountsLen THEN [err |-> "NotEnoughAccountKeys", at |-> "len"]
    ELSE IF w.accounts[a.escrow].owner # ESCROW_ID
         THEN [err |-> "InvalidAccountOwner", at |-> "owner"]
    ELSE LET ld == EscrowLoad(w.accounts[a.escrow].data)
         IN  IF ld.err # "Ok" THEN [err |-> ld.err, at |-> "load"]
             ELSE IF ld.rec.maker # a.maker \/ ld.rec.mint_a # a.mint_a
                  THEN [err |-> "InvalidAccountOwner", at |-> "maker_mint"]
             ELSE [err |-> "Ok", at |-> "bound"]

\* RefundAccounts::try_from
RefundAccounts_try_from(w, a) ==
    IF a.n # RefundAccountsLen THEN [err |-> "NotEnoughAccountKeys", at |-> "len"]
    ELSE IF a.maker \notin a.signers THEN [err |-> "InvalidAccountOwner", at |-> "signer"]
    ELSE IF w.accounts[a.escrow].owner # ESCROW_ID
         THEN [err |-> "InvalidAccountOwner", at |-> "owner"]
    ELSE LET ld == EscrowLoad(w.accounts[a.escrow].data)
         IN  IF ld.err # "Ok" THEN [err |-> ld.err, at |-> "load"]
             ELSE IF ld.rec.maker # a.maker \/ ld.rec.mint_a # a.mint_a
                  THEN [err |-> "InvalidAccountOwner", at |-> "maker_mint"]
             ELSE [err |-> "Ok", at |-> "bound"]

\* Refund::process
Refund_process(w, a) ==
    LET ld == EscrowLoad(w.accounts[a.escrow].data)
        seed == ld.rec.seed
        bump == ld.rec.bump
        signers == SignerFrom(a.maker, seed, bump)
        signed == a.signers \cup signers
        vault_amount == w.tokens[a.vault].amount
        s2 == IF signers = {} THEN Res("InvalidSeeds", w)
              ELSE TransferChecked(w, a.vault, a.mint_a, a.maker_ata_a, a.escrow,
                                   vault_amount, Decimals(a.mint_a), signed)
        s3 == CloseAccount(s2.w, a.vault, a.maker, a.escrow, signed)
        s4 == Transfer(s3.w, a.escrow, a.maker, s3.w.accounts[a.escrow].lamports,
                       signed)
    IN  IF ld.err # "Ok" THEN Out(ld.err, "load", w)
        ELSE IF ~w.tokens[a.vault].exists THEN Out("InvalidAccountData", "vault_data", w)
        ELSE IF s2.err # "Ok" THEN Out(s2.err, "leg_a", w)
        ELSE IF s3.err # "Ok" THEN Out(s3.err, "close_holder", w)
        ELSE IF s4.err # "Ok" THEN Out(s4.err, "close_escrow", w)
        ELSE Out("Ok", "done", Purge(s4.w))

RefundOutcome(w, a) ==
    LET b == RefundAccounts_try_from(w, a)
    IN  IF b.err # "Ok" THEN Out(b.err, b.at, w) ELSE Refund_process(w, a)

\* ------------------------------------------------------------ inputs drawn
\* a unit is signed by one user
SignerSets == {{u} : u \in Users}
Counts(n) == {n - 1, n, n + 1}
ProgSlot(id) == {id, OtherProgram}
DestErrs == {"InvalidDestination", "DestinationMintMismatch"}

\* a slot the code has not read yet holds a placeholder
Pda0 == find_escrow_address(U1, 1).key
MakeAccs0 ==
    [n |-> MakeAccountsLen, signers |-> {}, maker |-> U1, escrow |-> Pda0,
     mint_a |-> MintA, mint_b |-> MintA, maker_ata_a |-> NilHolder,
     vault |-> NilHolder, token_program |-> TOKEN_ID,
     associated_token_program |-> ATA_ID, system_program |-> SYSTEM_ID]
MakeData0 == [len |-> MakeLEN, seed |-> 1, receive |-> 1, amount |-> 1]
TakeAccs0 ==
    [n |-> TakeAccountsLen, signers |-> {}, taker |-> U1, maker |-> U1,
     escrow |-> Pda0, mint_a |-> MintA, mint_b |-> MintA, vault |-> NilHolder,
     taker_ata_a |-> NilHolder, taker_ata_b |-> NilHolder,
     maker_ata_b |-> NilHolder]
RefundAccs0 ==
    [n |-> RefundAccountsLen, signers |-> {}, maker |-> U1, escrow |-> Pda0,
     mint_a |-> MintA, vault |-> NilHolder, maker_ata_a |-> NilHolder]

\* a unit that fails commits nothing; one that succeeds commits its ledger
\* and is remembered with the slots that name who acted on which escrow
Commit(op, o, a, actor, amount) ==
    IF o.err # "Ok" THEN UNCHANGED vars
    ELSE /\ wallet' = o.w.wallet
         /\ accounts' = o.w.accounts
         /\ tokens' = o.w.tokens
         /\ last' = [op |-> op, escrow |-> a.escrow, actor |-> actor,
                     signers |-> a.signers]
         /\ deposited' = [deposited EXCEPT ![a.escrow] = amount]
         /\ UNCHANGED <<vault, clock, run>>

\* every offer drawn gives asset A for asset B
OfferMintA == {MintA}
OfferMintB == {MintB}

\* The slots are drawn one group at a time.  A unit that fails commits
\* nothing whatever the check that failed, so as soon as the slots drawn so
\* far fail a check that reads only them, the slots not drawn are left out.
MakeOp ==
    \E n \in Counts(MakeAccountsLen), sg \in SignerSets, mk \in Users :
    LET a1 == [MakeAccs0 EXCEPT !.n = n, !.signers = sg, !.maker = mk]
        o1 == MakeOutcome(World, a1, MakeData0)
    IN  IF o1.at \in {"len", "signer"} THEN Commit("Make", o1, a1, a1.maker, 0)
        ELSE
    \E tp \in ProgSlot(TOKEN_ID), ap \in ProgSlot(ATA_ID), sp \in ProgSlot(SYSTEM_ID) :
    LET a2 == [a1 EXCEPT !.token_program = tp, !.associated_token_program = ap,
                         !.system_program = sp]
        o2 == MakeOutcome(World, a2, MakeData0)
    IN  IF o2.at \in {"token_program", "associated_token_program", "system_program"}
        THEN Commit("Make", o2, a2, a2.maker, 0)
        ELSE
    \E sd \in Seeds, ek \in PdaAddrs :
    LET a3 == [a2 EXCEPT !.escrow = ek]
        d3 == [MakeData0 EXCEPT !.seed = sd]
        o3 == MakeOutcome(World, a3, d3)
    IN  IF o3.at \in {"escrow_key", "create_account"} THEN Commit("Make", o3, a3, a3.maker, 0)
        ELSE
    \E v \in HolderIds, ma \in OfferMintA :
    LET a4 == [a3 EXCEPT !.vault = v, !.mint_a = ma]
        o4 == MakeOutcome(World, a4, d3)
    IN  IF o4.at \in {"create_holder", "load"} THEN Commit("Make", o4, a4, a4.maker, 0)
        ELSE
    \E src \in HolderIds, mb \in OfferMintB :
    LET a5 == [a4 EXCEPT !.maker_ata_a = src, !.mint_b = mb]
        o5 == MakeOutcome(World, a5, d3)
    IN  IF o5.at = "deposit" /\ o5.err # "InsufficientFunds" THEN Commit("Make", o5, a5, a5.maker, 0)
        ELSE
    \E ln \in {MakeLEN - 1, MakeLEN}, rc \in Amounts, am \in Amounts :
    LET d6 == [len |-> ln, seed |-> sd, receive |-> rc, amount |-> am]
    IN  Commit("Make", MakeOutcome(World, a5, d6), a5, a5.maker, am)

TakeOp ==
    \E n \in Counts(TakeAccountsLen), sg \in SignerSets, tk \in Users :
    LET a1 == [TakeAccs0 EXCEPT !.n = n, !.signers = sg, !.taker = tk]
        o1 == TakeOutcome(World, a1)
    IN  IF o1.at \in {"len", "signer"} THEN Commit("Take", o1, a1, a1.taker, 0)
        ELSE
    \E ek \in PdaAddrs :
    LET a2 == [a1 EXCEPT !.escrow = ek]
        o2 == TakeOutcome(World, a2)
    IN  IF o2.at \in {"owner", "load"} THEN Commit("Take", o2, a2, a2.taker, 0)
        ELSE
    \E mk \in Users, ma \in Mints, mb \in Mints :
    LET a3 == [a2 EXCEPT !.maker = mk, !.mint_a = ma, !.mint_b = mb]
        o3 == TakeOutcome(World, a3)
    IN  IF o3.at \in {"maker", "mints"} THEN Commit("Take", o3, a3, a3.taker, 0)
        ELSE
    \E sb \in HolderIds :
    LET a4 == [a3 EXCEPT !.taker_ata_b = sb]
        o4 == TakeOutcome(World, a4)
    IN  IF o4.at = "leg_b" /\ o4.err \notin DestErrs THEN Commit("Take", o4, a4, a4.taker, 0)
        ELSE
    \E db \in HolderIds :
    LET a5 == [a4 EXCEPT !.maker_ata_b = db]
        o5 == TakeOutcome(World, a5)
    IN  IF o5.at = "leg_b" THEN Commit("Take", o5, a5, a5.taker, 0)
        ELSE
    \E v \in HolderIds :
    LET a6 == [a5 EXCEPT !.vault = v]
        o6 == TakeOutcome(World, a6)
    IN  IF o6.at = "vault_data" \/ (o6.at = "leg_a" /\ o6.err \notin DestErrs)
        THEN Commit("Take", o6, a6, a6.taker, 0)
        ELSE
    \E da \in HolderIds :
    LET a7 == [a6 EXCEPT !.taker_ata_a = da]
    IN  Commit("Take", TakeOutcome(World, a7), a7, a7.taker, 0)

RefundOp ==
    \E n \in Counts(RefundAccountsLen), sg \in SignerSets, mk \in Users :
    LET a1 == [RefundAccs0 EXCEPT !.n = n, !.signers = sg, !.maker = mk]
        o1 == RefundOutcome(World, a1)
    IN  IF o1.at \in {"len", "signer"} THEN Commit("Refund", o1, a1, a1.maker, 0)
        ELSE
    \E ek \in PdaAddrs :
    LET a2 == [a1 EXCEPT !.escrow = ek]
        o2 == RefundOutcome(World, a2)
    IN  IF o2.at \in {"owner", "load"} THEN Commit("Refund", o2, a2, a2.maker, 0)
        ELSE
    \E ma \in Mints :
    LET a3 == [a2 EXCEPT !.mint_a = ma]
        o3 == RefundOutcome(World, a3)
    IN  IF o3.at = "maker_mint" THEN Commit("Refund", o3, a3, a3.maker, 0)
        ELSE
    \E v \in HolderIds :
    LET a4 == [a3 EXCEPT !.vault = v]
        o4 == RefundOutcome(World, a4)
    IN  IF o4.at = "vault_data" \/ (o4.at = "leg_a" /\ o4.err \notin DestErrs)
        THEN Commit("Refund", o4, a4, a4.maker, 0)
        ELSE
    \E da \in HolderIds :
    LET a5 == [a4 EXCEPT !.maker_ata_a = da]
    IN  Commit("Refund", RefundOutcome(World, a5), a5, a5.maker, 0)

\* ======================================================== vault programs
\* ------------------------------------------------------------ plain vault
\* find_program_address(&[b"vault", owner], &crate::ID) of the plain vault
VaultOnCurve(owner, bump) == (Idx(owner) + bump) % 3 = 1

vault_program_address(owner, bump) ==
    IF VaultOnCurve(owner, bump) THEN NoAddr ELSE <<"vault", owner, bump>>

RECURSIVE VaultFindBump(_, _)
VaultFindBump(owner, b) ==
    IF ~VaultOnCurve(owner, b) THEN b
    ELSE IF b = 0 THEN 0 - 1
    ELSE VaultFindBump(owner, b - 1)

find_vault_address(owner) ==
    LET b == VaultFindBump(owner, MaxBump)
    IN  [key |-> vault_program_address(owner, b), bump |-> b]

VaultSignerFrom(owner, bump) == {vault_program_address(owner, bump)} \ {NoAddr}

\* ------------------------------------------------------------- secp vault
\* the secp256r1 public keys (33 bytes each) that vaults are keyed by
K1 == <<"secp", "k1">>
K2 == <<"secp", "k2">>
SecpKeys == {K1, K2}
KIdx(k) == IF k = K1 THEN 1 ELSE 2

\* find_program_address(&[b"vault", pubkey[..1], pubkey[1..33]], &crate::ID)
SecpOnCurve(pubkey, bump) == (KIdx(pubkey) + bump) % 3 = 1

secp_program_address(pubkey, bump) ==
    IF SecpOnCurve(pubkey, bump) THEN NoAddr ELSE <<"secp-vault", pubkey, bump>>

RECURSIVE SecpFindBump(_, _)
SecpFindBump(pubkey, b) ==
    IF ~SecpOnCurve(pubkey, b) THEN b
    ELSE IF b = 0 THEN 0 - 1
    ELSE SecpFindBump(pubkey, b - 1)

find_secp_address(pubkey) ==
    LET b == SecpFindBump(pubkey, MaxBump)
    IN  [key |-> secp_program_address(pubkey, b), bump |-> b]

\* a signer built from the 32 bytes after the key's first byte alone
SecpSignerFrom_tail_only(pubkey, bump) ==
    IF SecpOnCurve(pubkey, bump) THEN {}
    ELSE {<<"secp-vault", <<"tail", pubkey>>, bump>>}

\* Signer::from(&seeds) with seeds [b"vault", signer[..1], signer[1..], bump]
SecpSignerFrom(pubkey, bump) == {secp_program_address(pubkey, bump)} \ {NoAddr}

\* ------------------------------------------------------- the vault ledger
\* every address either program can derive, and one account that another
\* program owns
ForeignAcct == <<"foreign">>
PlainAddrs == {vault_program_address(u, b) : u \in Users, b \in Bumps} \ {NoAddr}
SecpAddrs == {secp_program_address(k, b) : k \in SecpKeys, b \in Bumps} \ {NoAddr}
VaultAccts == PlainAddrs \cup SecpAddrs \cup {ForeignAcct}

VaultWorld == [wallet |-> wallet, vault |-> vault]

\* AccountInfo::lamports of a wallet or of a vault account
Lamports(w, a) == IF a \in Users THEN w.wallet[a] ELSE w.vault[a].lamports

\* system Transfer{from, to, lamports} between wallets and vault accounts:
\* `from` must sign, be owned by the system service and hold the lamports
SystemTransfer(w, from, to, lamports, signed) ==
    IF from \notin signed THEN Res("MissingRequiredSignature", w)
    ELSE IF from \notin Users /\ w.vault[from].owner # SYSTEM_ID
         THEN Res("ExternalAccountLamportSpend", w)
    ELSE IF Lamports(w, from) < lamports THEN Res("InsufficientFunds", w)
    ELSE IF from = to THEN Res("Ok", w)
    ELSE LET w1 == IF from \in Users
                   THEN [w EXCEPT !.wallet[from] = @ - lamports]
                   ELSE [w EXCEPT !.vault[from].lamports = @ - lamports]
         IN  Res("Ok", IF to \in Users
                       THEN [w1 EXCEPT !.wallet[to] = @ + lamports]
                       ELSE [w1 EXCEPT !.vault[to].lamports = @ + lamports])

\* ------------------------------------------------- plain vault: Deposit
VaultAccountsLen == 3
VaultDepositLEN == 8

\* a plain-vault Deposit binder that does not ask the vault to be empty
Vault_DepositAccounts_no_funded_check(w, a) ==
    IF a.n # VaultAccountsLen THEN [err |-> "NotEnoughAccountKeys", at |-> "len"]
    ELSE IF a.owner \notin a.signers THEN [err |-> "InvalidAccountOwner", at |-> "signer"]
    ELSE IF w.vault[a.vault].owner # SYSTEM_ID
         THEN [err |-> "InvalidAccountOwner", at |-> "owner"]
    ELSE IF a.vault # find_vault_address(a.owner).key
         THEN [err |-> "InvalidAccountOwner", at |-> "key"]
    ELSE [err |-> "Ok", at |-> "bound"]

\* DepositAccounts::try_from of the plain vault
Vault_DepositAccounts_try_from(w, a) ==
    IF a.n # VaultAccountsLen THEN [err |-> "NotEnoughAccountKeys", at |-> "len"]
    ELSE IF a.owner \notin a.signers THEN [err |-> "InvalidAccountOwner", at |-> "signer"]
    ELSE IF w.vault[a.vault].owner # SYSTEM_ID
         THEN [err |-> "InvalidAccountOwner", at |-> "owner"]
    ELSE IF w.vault[a.vault].lamports # 0 THEN [err |-> "InvalidAccountData", at |-> "funded"]
    ELSE IF a.vault # find_vault_address(a.owner).key
         THEN [err |-> "InvalidAccountOwner", at |-> "key"]
    ELSE [err |-> "Ok", at |-> "bound"]

\* DepositInstructionData::try_from of the plain vault
Vault_DepositInstructionData_try_from(d) ==
    IF d.len # VaultDepositLEN THEN "InvalidInstructionData"
    ELSE IF d.amount = 0 THEN "InvalidInstructionData"
    ELSE "Ok"

\* Deposit::process of the plain vault
Vault_Deposit_process(w, a, d) ==
    LET t == SystemTransfer(w, a.owner, a.vault, d.amount, a.signers)
    IN  IF t.err # "Ok" THEN Out(t.err, "transfer", w) ELSE Out("Ok", "done", t.w)

\* Deposit::try_from, then Deposit::process
VaultDepositOutcome(w, a, d) ==
    LET b == Vault_DepositAccounts_try_from(w, a)
        rd == Vault_DepositInstructionData_try_from(d)
    IN  IF b.err # "Ok" THEN Out(b.err, b.at, w)
        ELSE IF rd # "Ok" THEN Out(rd, "data", w)
        ELSE Vault_Deposit_process(w, a, d)

\* a plain-vault Withdraw binder that does not ask the owner to sign
Vault_WithdrawAccounts_no_signer_check(w, a) ==
    IF a.n # VaultAccountsLen
    THEN [err |-> "NotEnoughAccountKeys", at |-> "len", bumps |-> 0]
    ELSE IF w.vault[a.vault].owner # SYSTEM_ID
         THEN [err |-> "InvalidAccountOwner", at |-> "owner", bumps |-> 0]
    ELSE IF w.vault[a.vault].lamports = 0
         THEN [err |-> "InvalidAccountData", at |-> "empty", bumps |-> 0]
    ELSE IF a.vault # find_vault_address(a.owner).key
         THEN [err |-> "InvalidAccountOwner", at |-> "key", bumps |-> 0]
    ELSE [err |-> "Ok", at |-> "bound", bumps |-> find_vault_address(a.owner).bump]

\* ------------------------------------------------ plain vault: Withdraw
\* WithdrawAccounts::try_from of the plain vault; it keeps the bump it found
Vault_WithdrawAccounts_try_from(w, a) ==
    IF a.n # VaultAccountsLen
    THEN [err |-> "NotEnoughAccountKeys", at |-> "len", bumps |-> 0]
    ELSE IF a.owner \notin a.signers
         THEN [err |-> "InvalidAccountOwner", at |-> "signer", bumps |-> 0]
    ELSE IF w.vault[a.vault].owner # SYSTEM_ID
         THEN [err |-> "InvalidAccountOwner", at |-> "owner", bumps |-> 0]
    ELSE IF w.vault[a.vault].lamports = 0
         THEN [err |-> "InvalidAccountData", at |-> "empty", bumps |-> 0]
    ELSE IF a.vault # find_vault_address(a.owner).key
         THEN [err |-> "InvalidAccountOwner", at |-> "key", bumps |-> 0]
    ELSE [err |-> "Ok", at |-> "bound", bumps |-> find_vault_address(a.owner).bump]

\* Withdraw::process of the plain vault
Vault_Withdraw_process(w, a, bumps) ==
    LET signers == VaultSignerFrom(a.owner, bumps)
        t == IF signers = {} THEN Res("InvalidSeeds", w)
             ELSE SystemTransfer(w, a.vault, a.owner, Lamports(w, a.vault),
                                 a.signers \cup signers)
    IN  IF t.err # "Ok" THEN Out(t.err, "transfer", w) ELSE Out("Ok", "done", t.w)

\* Withdraw::try_from, then Withdraw::process
VaultWithdrawOutcome(w, a) ==
    LET b == Vault_WithdrawAccounts_try_from(w, a)
    IN  IF b.err # "Ok" THEN Out(b.err, b.at, w)
        ELSE Vault_Withdraw_process(w, a, b.bumps)

\* -------------------------------------------------- secp vault: Deposit
SecpDepositAccountsLen == 3
SecpPubkeyLEN == 33
SecpAmountLEN == 8

\* DepositAccounts::try_from of the secp vault
Secp_DepositAccounts_try_from(w, a) ==
    IF a.n # SecpDepositAccountsLen THEN [err |-> "NotEnoughAccountKeys", at |-> "len"]
    ELSE IF a.payer \notin a.signers THEN [err |-> "InvalidAccountOwner", at |-> "signer"]
    ELSE IF w.vault[a.vault].owner # SYSTEM_ID
         THEN [err |-> "InvalidAccountOwner", at |-> "owner"]
    ELSE IF w.vault[a.vault].lamports # 0 THEN [err |-> "InvalidAccountData", at |-> "funded"]
    ELSE [err |-> "Ok", at |-> "bound"]

\* DepositInstructionData::try_from of the secp vault: 33 bytes of key, then
\* exactly 8 bytes of amount
Secp_DepositInstructionData_try_from(d) ==
    IF d.len < SecpPubkeyLEN + SecpAmountLEN THEN "InvalidInstructionData"
    ELSE IF d.len - SecpPubkeyLEN # SecpAmountLEN THEN "InvalidInstructionData"
    ELSE "Ok"

\* a secp Deposit that pays into the vault slot without deriving its address
Secp_Deposit_process_any_vault(w, a, d) ==
    LET t == SystemTransfer(w, a.payer, a.vault, d.amount, a.signers)
    IN  IF t.err # "Ok" THEN Out(t.err, "transfer", w)
        ELSE Out("Ok", "done", t.w)

\* Deposit::process of the secp vault
Secp_Deposit_process(w, a, d) ==
    LET vault_key == find_secp_address(d.pubkey).key
        t == SystemTransfer(w, a.payer, a.vault, d.amount, a.signers)
    IN  IF vault_key # a.vault THEN Out("InvalidAccountOwner", "key", w)
        ELSE IF t.err # "Ok" THEN Out(t.err, "transfer", w)
        ELSE Out("Ok", "done", t.w)

\* Deposit::try_from, then Deposit::process
SecpDepositOutcome(w, a, d) ==
    LET b == Secp_DepositAccounts_try_from(w, a)
        rd == Secp_DepositInstructionData_try_from(d)
    IN  IF b.err # "Ok" THEN Out(b.err, b.at, w)
        ELSE IF rd # "Ok" THEN Out(rd, "data", w)
        ELSE Secp_Deposit_process(w, a, d)

\* ------------------------------------------------- secp vault: Withdraw
SecpWithdrawAccountsLen == 4
MsgPayerLEN == 32
MsgExpiryLEN == 8

\* The message of a signature record is a run of byte fields, each with its
\* width: the payer key, the expiry, and whatever follows.
Field(width, val) == [width |-> width, val |-> val]
\* the values a byte takes
ByteRange == 256

\* the signer of a message writes an integer as `width` bytes, least
\* significant first, in two's complement
RECURSIVE to_le_bytes(_, _)
to_le_bytes(n, width) ==
    IF width = 0 THEN << >>
    ELSE <<n % ByteRange>> \o to_le_bytes(n \div ByteRange, width - 1)

\* i64::from_le_bytes: the last byte is the most significant and carries the
\* sign; the value is built from it downwards
RECURSIVE LeFold(_, _, _)
LeFold(bytes, k, acc) ==
    IF k = 0 THEN acc ELSE LeFold(bytes, k - 1, acc * ByteRange + bytes[k])
i64_from_le_bytes(bytes) ==
    LET top == bytes[Len(bytes)]
    IN  LeFold(bytes, Len(bytes) - 1,
               IF 2 * top >= ByteRange THEN top - ByteRange ELSE top)

Message(payer, expiry, shape) ==
    CASE shape = "short" ->
           <<Field(MsgPayerLEN, payer),
             Field(MsgExpiryLEN - 1, to_le_bytes(expiry, MsgExpiryLEN - 1))>>
      [] shape = "exact" ->
           <<Field(MsgPayerLEN, payer),
             Field(MsgExpiryLEN, to_le_bytes(expiry, MsgExpiryLEN))>>
      [] OTHER ->
           <<Field(MsgPayerLEN, payer),
             Field(MsgExpiryLEN, to_le_bytes(expiry, MsgExpiryLEN)), Field(1, 0)>>

RECURSIVE MsgLen(_)
MsgLen(m) == IF m = << >> THEN 0 ELSE Head(m).width + MsgLen(Tail(m))

\* message_data.split_at(32), then the first 8 bytes of the rest
MsgPayer(m) == m[1].val
MsgExpiry(m) == i64_from_le_bytes(m[2].val)

\* the instruction that follows the Withdraw in its transaction
NoIx == [kind |-> "none", num_signatures |-> 0, signer |-> K1, verifies |-> TRUE,
         message |-> << >>]

\* a secp Withdraw binder that takes its four accounts from the front of a
\* longer list
Secp_WithdrawAccounts_at_least(w, a) ==
    IF a.n < SecpWithdrawAccountsLen THEN [err |-> "NotEnoughAccountKeys", at |-> "len"]
    ELSE IF a.payer \notin a.signers THEN [err |-> "InvalidAccountOwner", at |-> "signer"]
    ELSE IF w.vault[a.vault].owner # SYSTEM_ID
         THEN [err |-> "InvalidAccountOwner", at |-> "owner"]
    ELSE IF w.vault[a.vault].lamports = 0 THEN [err |-> "InvalidAccountData", at |-> "empty"]
    ELSE [err |-> "Ok", at |-> "bound"]

\* WithdrawAccounts::try_from of the secp vault
Secp_WithdrawAccounts_try_from(w, a) ==
    IF a.n # SecpWithdrawAccountsLen THEN [err |-> "NotEnoughAccountKeys", at |-> "len"]
    ELSE IF a.payer \notin a.signers THEN [err |-> "InvalidAccountOwner", at |-> "signer"]
    ELSE IF w.vault[a.vault].owner # SYSTEM_ID
         THEN [err |-> "InvalidAccountOwner", at |-> "owner"]
    ELSE IF w.vault[a.vault].lamports = 0 THEN [err |-> "InvalidAccountData", at |-> "empty"]
    ELSE [err |-> "Ok", at |-> "bound"]

\* WithdrawInstructionData::try_from of the secp vault
Secp_WithdrawInstructionData_try_from(d) ==
    IF d.len = 0 THEN "InvalidInstructionData" ELSE "Ok"

\* a secp Withdraw that signs with the bump it finds, not the one supplied
Secp_Withdraw_process_found_bump(w, a, d, ix, now) ==
    LET signers == SecpSignerFrom(ix.signer, find_secp_address(ix.signer).bump)
        t == IF signers = {} THEN Res("InvalidSeeds", w)
             ELSE SystemTransfer(w, a.vault, a.payer, Lamports(w, a.vault),
                                 a.signers \cup signers)
    IN  IF a.instructions # "sysvar" THEN Out("UnsupportedSysvar", "instructions", w)
        ELSE IF ix.kind = "none" THEN Out("InvalidInstructionData", "relative", w)
        ELSE IF ix.kind # "secp256r1" THEN Out("IncorrectProgramId", "record", w)
        ELSE IF ix.num_signatures # 1 THEN Out("InvalidInstructionData", "num_signatures", w)
        ELSE IF MsgLen(ix.message) < MsgPayerLEN + MsgExpiryLEN
             THEN Out("InvalidInstructionData", "message_len", w)
        ELSE IF a.payer # MsgPayer(ix.message) THEN Out("InvalidAccountOwner", "payer", w)
        ELSE IF now > MsgExpiry(ix.message) THEN Out("InvalidInstructionData", "expiry", w)
        ELSE IF t.err # "Ok" THEN Out(t.err, "transfer", w)
        ELSE Out("Ok", "done", t.w)

\* a secp Withdraw that asks for at least one signature in the record
Secp_Withdraw_process_some_signature(w, a, d, ix, now) ==
    LET signers == SecpSignerFrom(ix.signer, d.bump)
        t == IF signers = {} THEN Res("InvalidSeeds", w)
             ELSE SystemTransfer(w, a.vault, a.payer, Lamports(w, a.vault),
                                 a.signers \cup signers)
    IN  IF a.instructions # "sysvar" THEN Out("UnsupportedSysvar", "instructions", w)
        ELSE IF ix.kind = "none" THEN Out("InvalidInstructionData", "relative", w)
        ELSE IF ix.kind # "secp256r1" THEN Out("IncorrectProgramId", "record", w)
        ELSE IF ix.num_signatures < 1 THEN Out("InvalidInstructionData", "num_signatures", w)
        ELSE IF MsgLen(ix.message) < MsgPayerLEN + MsgExpiryLEN
             THEN Out("InvalidInstructionData", "message_len", w)
        ELSE IF a.payer # MsgPayer(ix.message) THEN Out("InvalidAccountOwner", "payer", w)
        ELSE IF now > MsgExpiry(ix.message) THEN Out("InvalidInstructionData", "expiry", w)
        ELSE IF t.err # "Ok" THEN Out(t.err, "transfer", w)
        ELSE Out("Ok", "done", t.w)

\* a secp Withdraw that tests the expiry before the payer the message names
Secp_Withdraw_process_expiry_first(w, a, d, ix, now) ==
    LET signers == SecpSignerFrom(ix.signer, d.bump)
        t == IF signers = {} THEN Res("InvalidSeeds", w)
             ELSE SystemTransfer(w, a.vault, a.payer, Lamports(w, a.vault),
                                 a.signers \cup signers)
    IN  IF a.instructions # "sysvar" THEN Out("UnsupportedSysvar", "instructions", w)
        ELSE IF ix.kind = "none" THEN Out("InvalidInstructionData", "relative", w)
        ELSE IF ix.kind # "secp256r1" THEN Out("IncorrectProgramId", "record", w)
        ELSE IF ix.num_signatures # 1 THEN Out("InvalidInstructionData", "num_signatures", w)
        ELSE IF MsgLen(ix.message) < MsgPayerLEN + MsgExpiryLEN
             THEN Out("InvalidInstructionData", "message_len", w)
        ELSE IF now > MsgExpiry(ix.message) THEN Out("InvalidInstructionData", "expiry", w)
        ELSE IF a.payer # MsgPayer(ix.message) THEN Out("InvalidAccountOwner", "payer", w)
        ELSE IF t.err # "Ok" THEN Out(t.err, "transfer", w)
        ELSE Out("Ok", "done", t.w)

\* a secp Withdraw that turns the authorization away at its expiry time
Secp_Withdraw_process_expiry_strict(w, a, d, ix, now) ==
    LET signers == SecpSignerFrom(ix.signer, d.bump)
        t == IF signers = {} THEN Res("InvalidSeeds", w)
             ELSE SystemTransfer(w, a.vault, a.payer, Lamports(w, a.vault),
                                 a.signers \cup signers)
    IN  IF a.instructions # "sysvar" THEN Out("UnsupportedSysvar", "instructions", w)
        ELSE IF ix.kind = "none" THEN Out("InvalidInstructionData", "relative", w)
        ELSE IF ix.kind # "secp256r1" THEN Out("IncorrectProgramId", "record", w)
        ELSE IF ix.num_signatures # 1 THEN Out("InvalidInstructionData", "num_signatures", w)
        ELSE IF MsgLen(ix.message) < MsgPayerLEN + MsgExpiryLEN
             THEN Out("InvalidInstructionData", "message_len", w)
        ELSE IF a.payer # MsgPayer(ix.message) THEN Out("InvalidAccountOwner", "payer", w)
        ELSE IF now >= MsgExpiry(ix.message) THEN Out("InvalidInstructionData", "expiry", w)
        ELSE IF t.err # "Ok" THEN Out(t.err, "transfer", w)
        ELSE Out("Ok", "done", t.w)

\* a secp Withdraw that does not compare the payer the message names
Secp_Withdraw_process_any_payer(w, a, d, ix, now) ==
    LET signers == SecpSignerFrom(ix.signer, d.bump)
        t == IF signers = {} THEN Res("InvalidSeeds", w)
             ELSE SystemTransfer(w, a.vault, a.payer, Lamports(w, a.vault),
                                 a.signers \cup signers)
    IN  IF a.instructions # "sysvar" THEN Out("UnsupportedSysvar", "instructions", w)
        ELSE IF ix.kind = "none" THEN Out("InvalidInstructionData", "relative", w)
        ELSE IF ix.kind # "secp256r1" THEN Out("IncorrectProgramId", "record", w)
        ELSE IF ix.num_signatures # 1 THEN Out("InvalidInstructionData", "num_signatures", w)
        ELSE IF MsgLen(ix.message) < MsgPayerLEN + MsgExpiryLEN
             THEN Out("InvalidInstructionData", "message_len", w)
        ELSE IF now > MsgExpiry(ix.message) THEN Out("InvalidInstructionData", "expiry", w)
        ELSE IF t.err # "Ok" THEN Out(t.err, "transfer", w)
        ELSE Out("Ok", "done", t.w)

\* Withdraw::process of the secp vault
Secp_Withdraw_process(w, a, d, ix, now) ==
    LET signers == SecpSignerFrom(ix.signer, d.bump)
        t == IF signers = {} THEN Res("InvalidSeeds", w)
             ELSE SystemTransfer(w, a.vault, a.payer, Lamports(w, a.vault),
                                 a.signers \cup signers)
    IN  IF a.instructions # "sysvar" THEN Out("UnsupportedSysvar", "instructions", w)
        ELSE IF ix.kind = "none" THEN Out("InvalidInstructionData", "relative", w)
        ELSE IF ix.kind # "secp256r1" THEN Out("IncorrectProgramId", "record", w)
        ELSE IF ix.num_signatures # 1 THEN Out("InvalidInstructionData", "num_signatures", w)
        ELSE IF MsgLen(ix.message) < MsgPayerLEN + MsgExpiryLEN
             THEN Out("InvalidInstructionData", "message_len", w)
        ELSE IF a.payer # MsgPayer(ix.message) THEN Out("InvalidAccountOwner", "payer", w)
        ELSE IF now > MsgExpiry(ix.message) THEN Out("InvalidInstructionData", "expiry", w)
        ELSE IF t.err # "Ok" THEN Out(t.err, "transfer", w)
        ELSE Out("Ok", "done", t.w)

\* Withdraw::try_from, then Withdraw::process; the transaction then runs the
\* signature record, which fails it unless every signature in it verifies
SecpWithdrawOutcome(w, a, d, ix, now) ==
    LET b == Secp_WithdrawAccounts_try_from(w, a)
        rd == Secp_WithdrawInstructionData_try_from(d)
        o == Secp_Withdraw_process(w, a, d, ix, now)
    IN  IF b.err # "Ok" THEN Out(b.err, b.at, w)
        ELSE IF rd # "Ok" THEN Out(rd, "data", w)
        ELSE IF o.err # "Ok" THEN o
        ELSE IF ~ix.verifies THEN Out("PrecompileFailed", "precompile", w)
        ELSE o

\* -------------------------------------------------------------------- Init
\* every user holds both assets; one empty holder of asset A, made directly
\* with the token service, names the escrow address of (U1, seed 1) as owner
Init ==
    /\ wallet = [u \in Users |-> InitLamports]
    /\ accounts = [k \in PdaAddrs |-> NoAccount]
    /\ tokens = [h \in HolderIds |->
          IF h \in {Ata(u, m) : u \in Users, m \in Mints}
          THEN [exists |-> TRUE, mint |-> h[3], owner |-> h[2], amount |-> InitAmount]
          ELSE IF h = AuxHolder
          THEN [exists |-> TRUE, mint |-> MintA,
                owner |-> find_escrow_address(U1, 1).key, amount |-> 0]
          ELSE NoHolder]
    /\ last = [op |-> "none", escrow |-> NoAddr, actor |-> NoAddr, signers |-> {}]
    /\ deposited = [k \in PdaAddrs |-> 0]
    /\ vault = [v \in VaultAccts |->
          [owner |-> IF v = ForeignAcct THEN OtherProgram ELSE SYSTEM_ID,
           lamports |-> 0]]
    /\ clock = 0
    /\ run = Idle

Next == MakeOp \/ TakeOp \/ RefundOp

Spec == Init /\ [][Next]_vars

\* ------------------------------------------------ vault programs: units
MaxClock == 1
Times == 0..MaxClock
Shapes == {"short", "exact", "long"}
IxKinds == {"none", "other", "secp256r1"}

VaultAccs0 == [n |-> VaultAccountsLen, signers |-> {}, owner |-> U1,
               vault |-> ForeignAcct]
VaultData0 == [len |-> VaultDepositLEN, amount |-> 1]
SecpDepositAccs0 == [n |-> SecpDepositAccountsLen, signers |-> {}, payer |-> U1,
                     vault |-> ForeignAcct]
SecpDepositData0 == [len |-> SecpPubkeyLEN + SecpAmountLEN, pubkey |-> K1, amount |-> 1]
SecpWithdrawAccs0 == [n |-> SecpWithdrawAccountsLen, signers |-> {}, payer |-> U1,
                      vault |-> ForeignAcct, instructions |-> "sysvar"]
SecpWithdrawData0 == [len |-> 1, bump |-> 0]

\* a unit that fails commits nothing; one that succeeds commits the vault
\* ledger and is remembered with its vault, its signer, the amount its payload
\* named and the instruction that followed it
VaultCommit(op, o, a, actor, amount, ix) ==
    IF o.err # "Ok" THEN UNCHANGED vars
    ELSE /\ wallet' = o.w.wallet
         /\ vault' = o.w.vault
         /\ last' = [op |-> op, escrow |-> a.vault, actor |-> actor,
                     signers |-> a.signers, amount |-> amount, ix |-> ix]
         /\ UNCHANGED <<accounts, tokens, deposited, clock, run>>

VaultDepositOp ==
    \E n \in Counts(VaultAccountsLen), sg \in SignerSets, ow \in Users :
    LET a1 == [VaultAccs0 EXCEPT !.n = n, !.signers = sg, !.owner = ow]
        o1 == VaultDepositOutcome(VaultWorld, a1, VaultData0)
    IN  IF o1.at \in {"len", "signer"} THEN VaultCommit("Deposit", o1, a1, ow, 0, NoIx)
        ELSE
    \E v \in VaultAccts :
    LET a2 == [a1 EXCEPT !.vault = v]
        o2 == VaultDepositOutcome(VaultWorld, a2, VaultData0)
    IN  IF o2.at \in {"owner", "funded", "key"}
        THEN VaultCommit("Deposit", o2, a2, ow, 0, NoIx)
        ELSE
    \E ln \in Counts(VaultDepositLEN), am \in Amounts :
    LET d3 == [len |-> ln, amount |-> am]
    IN  VaultCommit("Deposit", VaultDepositOutcome(VaultWorld, a2, d3), a2, ow, am, NoIx)

VaultWithdrawOp ==
    \E n \in Counts(VaultAccountsLen), sg \in SignerSets, ow \in Users :
    LET a1 == [VaultAccs0 EXCEPT !.n = n, !.signers = sg, !.owner = ow]
        o1 == VaultWithdrawOutcome(VaultWorld, a1)
    IN  IF o1.at \in {"len", "signer"} THEN VaultCommit("Withdraw", o1, a1, ow, 0, NoIx)
        ELSE
    \E v \in VaultAccts :
    LET a2 == [a1 EXCEPT !.vault = v]
    IN  VaultCommit("Withdraw", VaultWithdrawOutcome(VaultWorld, a2), a2, ow,
                    Lamports(VaultWorld, v), NoIx)

SecpDepositOp ==
    \E n \in Counts(SecpDepositAccountsLen), sg \in SignerSets, py \in Users :
    LET a1 == [SecpDepositAccs0 EXCEPT !.n = n, !.signers = sg, !.payer = py]
        o1 == SecpDepositOutcome(VaultWorld, a1, SecpDepositData0)
    IN  IF o1.at \in {"len", "signer"} THEN VaultCommit("SecpDeposit", o1, a1, py, 0, NoIx)
        ELSE
    \E v \in VaultAccts :
    LET a2 == [a1 EXCEPT !.vault = v]
        o2 == SecpDepositOutcome(VaultWorld, a2, SecpDepositData0)
    IN  IF o2.at \in {"owner", "funded"}
        THEN VaultCommit("SecpDeposit", o2, a2, py, 0, NoIx)
        ELSE
    \E ln \in Counts(SecpPubkeyLEN + SecpAmountLEN), pk \in SecpKeys, am \in Amounts :
    LET d3 == [len |-> ln, pubkey |-> pk, amount |-> am]
    IN  VaultCommit("SecpDeposit", SecpDepositOutcome(VaultWorld, a2, d3), a2, py, am,
                    [NoIx EXCEPT !.signer = pk])

SecpWithdrawOp ==
    \E n \in Counts(SecpWithdrawAccountsLen), sg \in SignerSets, py \in Users :
    LET a1 == [SecpWithdrawAccs0 EXCEPT !.n = n, !.signers = sg, !.payer = py]
        o1 == SecpWithdrawOutcome(VaultWorld, a1, SecpWithdrawData0, NoIx, clock)
    IN  IF o1.at \in {"len", "signer"} THEN VaultCommit("SecpWithdraw", o1, a1, py, 0, NoIx)
        ELSE
    \E v \in VaultAccts :
    LET a2 == [a1 EXCEPT !.vault = v]
        o2 == SecpWithdrawOutcome(VaultWorld, a2, SecpWithdrawData0, NoIx, clock)
    IN  IF o2.at \in {"owner", "empty"}
        THEN VaultCommit("SecpWithdraw", o2, a2, py, 0, NoIx)
        ELSE
    \E ln \in {0, 1}, bp \in Bumps, sv \in {"sysvar", "other"}, kd \in IxKinds :
    LET a3 == [a2 EXCEPT !.instructions = sv]
        d3 == [len |-> ln, bump |-> bp]
        x3 == [NoIx EXCEPT !.kind = kd]
        o3 == SecpWithdrawOutcome(VaultWorld, a3, d3, x3, clock)
    IN  IF o3.at \in {"data", "instructions", "relative", "record"}
        THEN VaultCommit("SecpWithdraw", o3, a3, py, 0, x3)
        ELSE
    \E ns \in 0..2, pk \in SecpKeys :
    LET x4 == [x3 EXCEPT !.num_signatures = ns, !.signer = pk]
        o4 == SecpWithdrawOutcome(VaultWorld, a3, d3, x4, clock)
    IN  IF o4.at = "num_signatures" THEN VaultCommit("SecpWithdraw", o4, a3, py, 0, x4)
        ELSE
    \E sh \in Shapes, mp \in Users, ex \in Times, vf \in BOOLEAN :
    LET x5 == [x4 EXCEPT !.message = Message(mp, ex, sh), !.verifies = vf]
    IN  VaultCommit("SecpWithdraw", SecpWithdrawOutcome(VaultWorld, a3, d3, x5, clock),
                    a3, py, Lamports(VaultWorld, v), x5)

\* the ledger time moves on
Tick ==
    /\ clock < MaxClock
    /\ clock' = clock + 1
    /\ last' = [op |-> "Tick", escrow |-> NoAddr, actor |-> NoAddr, signers |-> {},
                amount |-> 0, ix |-> NoIx]
    /\ UNCHANGED <<wallet, accounts, tokens, deposited, vault, run>>

VaultNext ==
    \/ VaultDepositOp
    \/ VaultWithdrawOp
    \/ SecpDepositOp
    \/ SecpWithdrawOp
    \/ Tick

VaultSpec == Init /\ [][VaultNext]_vars

\* ------------------------------------------------------------- properties
Active(k) == accounts[k].owner = ESCROW_ID
Rec(k) == IF Len(accounts[k].data) = EscrowLEN THEN accounts[k].data[1] ELSE ZeroEscrow
\* the custody holder the Make of escrow k created
Custody(k) == Ata(k, Rec(k).mint_a)
Plus(h, x, n) == IF h = x THEN n ELSE 0
\* the holders of asset `mint` change by exactly: n out of hs, n into hd
Moved(mint, hs, hd, n) ==
    \A h \in HolderIds :
        (tokens[h].exists /\ tokens[h].mint = mint /\ tokens'[h].exists)
            => tokens'[h].amount = tokens[h].amount - Plus(h, hs, n) + Plus(h, hd, n)
HeldBy(h, u, mint) ==
    tokens[h].exists /\ tokens[h].owner = u /\ tokens[h].mint = mint
\* escrow k and its custody holder are closed, their lamports paid to maker
ClosedTo(k, c, maker) ==
    /\ tokens[c].exists
    /\ ~tokens'[c].exists
    /\ accounts'[k] = NoAccount
    /\ wallet' = [wallet EXCEPT ![maker] = @ + RentHolder + accounts[k].lamports]

\* C1: every successful Take moves exactly the record's `receive` of asset B
\* out of a holder of the signing taker into a holder of the recorded maker,
\* whatever holders the taker supplies.
C1_TakePaysMaker ==
    [][last'.op = "Take" =>
        LET k == last'.escrow
            r == Rec(k)
        IN  \E hs \in HolderIds, hd \in HolderIds :
                /\ HeldBy(hs, last'.actor, r.mint_b)
                /\ HeldBy(hd, r.maker, r.mint_b)
                /\ Moved(r.mint_b, hs, hd, r.receive)]_vars

\* C2: every successful Take moves exactly the deposited amount of asset A
\* from the custody holder its Make created to the taker, and closes that
\* holder and the escrow account with their lamports paid to the maker.
C2_TakeDrainsCustody ==
    [][last'.op = "Take" =>
        LET k == last'.escrow
            r == Rec(k)
            c == Custody(k)
        IN  /\ c \in HolderIds
            /\ ClosedTo(k, c, r.maker)
            /\ tokens[c].amount = deposited[k]
            /\ \E hd \in HolderIds :
                /\ HeldBy(hd, last'.actor, r.mint_a)
                /\ Moved(r.mint_a, c, hd, deposited[k])]_vars

\* C3: a successful Refund returns the deposited amount of asset A from the
\* custody holder to the maker, moves no asset B, and closes the custody
\* holder and the escrow account with their lamports paid to the maker.
C3_RefundReturnsCustody ==
    [][last'.op = "Refund" =>
        LET k == last'.escrow
            r == Rec(k)
            c == Custody(k)
        IN  /\ c \in HolderIds
            /\ ClosedTo(k, c, r.maker)
            /\ tokens[c].amount = deposited[k]
            /\ \E hd \in HolderIds :
                /\ HeldBy(hd, r.maker, r.mint_a)
                /\ Moved(r.mint_a, c, hd, deposited[k])
            /\ Moved(r.mint_b, NilHolder, NilHolder, 0)]_vars

\* C10: while an escrow is Active its custody holder holds exactly the
\* amount of asset A its Make deposited.
C10_CustodyHoldsDeposit ==
    \A k \in PdaAddrs :
        Active(k) =>
            /\ Custody(k) \in HolderIds
            /\ tokens[Custody(k)].exists
            /\ tokens[Custody(k)].amount = deposited[k]

\* the error categories of the specification, by program error
Category(err) ==
    CASE err = "NotEnoughAccountKeys" -> "NotFound"
      [] err = "InvalidInstructionData" -> "MalformedInput"
      [] err \in {"InvalidAccountOwner", "IncorrectProgramId"} -> "Unauthorized"
      [] err = "InvalidAccountData" -> "PreconditionFailed"
      [] OTHER -> "SubOperationFailed"

\* the account lists of a Take and of a Refund of escrow k that name the
\* record's maker and assets, the custody holder and the parties' own holders
TakeOf(k, tk) ==
    [n |-> TakeAccountsLen, signers |-> {tk}, taker |-> tk, maker |-> Rec(k).maker,
     escrow |-> k, mint_a |-> Rec(k).mint_a, mint_b |-> Rec(k).mint_b,
     vault |-> Custody(k), taker_ata_a |-> Ata(tk, Rec(k).mint_a),
     taker_ata_b |-> Ata(tk, Rec(k).mint_b),
     maker_ata_b |-> Ata(Rec(k).maker, Rec(k).mint_b)]
RefundOf(k) ==
    [n |-> RefundAccountsLen, signers |-> {Rec(k).maker}, maker |-> Rec(k).maker,
     escrow |-> k, mint_a |-> Rec(k).mint_a, vault |-> Custody(k),
     maker_ata_a |-> Ata(Rec(k).maker, Rec(k).mint_a)]
Rejected(o, category, w) == Category(o.err) = category /\ o.w = w

\* C4: a Take or a Refund succeeds only on an Active escrow and leaves it
\* closed, so at most one of them succeeds per Make; against an escrow that is
\* not Active every Take and every Refund, aimed at the custody holder of that
\* address, is rejected as Unauthorized and changes nothing.
C4_SettledOnce ==
    /\ [][last'.op \in {"Take", "Refund"} =>
            /\ Active(last'.escrow)
            /\ accounts'[last'.escrow] = NoAccount]_vars
    /\ [](\A k \in PdaAddrs : ~Active(k) =>
            \A u \in Users, mk \in Users, ma \in Mints, mb \in Mints :
                /\ Rejected(TakeOutcome(World,
                        [TakeAccs0 EXCEPT !.signers = {u}, !.taker = u, !.escrow = k,
                            !.maker = mk, !.mint_a = ma, !.mint_b = mb,
                            !.vault = Ata(k, ma),
                            !.taker_ata_a = Ata(u, ma), !.taker_ata_b = Ata(u, mb),
                            !.maker_ata_b = Ata(mk, mb)]), "Unauthorized", World)
                /\ Rejected(RefundOutcome(World,
                        [RefundAccs0 EXCEPT !.signers = {u}, !.maker = u, !.escrow = k,
                            !.mint_a = ma, !.vault = Ata(k, ma),
                            !.maker_ata_a = Ata(u, ma)]),
                        "Unauthorized", World))

\* a Take has closed an escrow, and a further Take of it is turned away
C4_Witness ==
    /\ last.op = "Take"
    /\ accounts[last.escrow] = NoAccount
    /\ \E u \in Users :
        TakeOutcome(World, [TakeAccs0 EXCEPT !.signers = {u}, !.taker = u,
                                             !.escrow = last.escrow]).at = "owner"

\* C5: a Refund succeeds only with the recorded maker in the maker slot and
\* signing; a Refund whose maker slot did not sign is rejected as
\* Unauthorized and changes nothing.
C5_RefundOnlyByMaker ==
    /\ [][last'.op = "Refund" =>
            /\ last'.actor = Rec(last'.escrow).maker
            /\ last'.actor \in last'.signers]_vars
    /\ [](\A k \in PdaAddrs, u \in Users, mk \in Users :
            mk # u =>
                Rejected(RefundOutcome(World,
                    [RefundAccs0 EXCEPT !.signers = {u}, !.maker = mk, !.escrow = k,
                        !.mint_a = Rec(k).mint_a, !.vault = Custody(k),
                        !.maker_ata_a = Ata(mk, Rec(k).mint_a)]),
                    "Unauthorized", World))

\* the maker has refunded an escrow
C5_Witness ==
    /\ last.op = "Refund"
    /\ last.actor \in last.signers
    /\ accounts[last.escrow] = NoAccount

\* C6: a Take whose maker, mint_a or mint_b slot differs from the record, and
\* a Refund whose maker or mint_a slot differs from it, is rejected as
\* Unauthorized and changes nothing.
C6_MismatchRejected ==
    \A k \in PdaAddrs : Active(k) =>
        \A u \in Users, mk \in Users, ma \in Mints, mb \in Mints :
            /\ (mk # Rec(k).maker \/ ma # Rec(k).mint_a \/ mb # Rec(k).mint_b) =>
                  Rejected(TakeOutcome(World,
                      [TakeOf(k, u) EXCEPT !.maker = mk, !.mint_a = ma, !.mint_b = mb]),
                      "Unauthorized", World)
            /\ (mk # Rec(k).maker \/ ma # Rec(k).mint_a) =>
                  Rejected(RefundOutcome(World,
                      [RefundOf(k) EXCEPT !.signers = {mk}, !.maker = mk, !.mint_a = ma]),
                      "Unauthorized", World)

\* an Active escrow is offered a Take that names another maker, and one that
\* names another asset, and the binding turns each away
C6_Witness ==
    \E k \in PdaAddrs, u \in Users, mk \in Users :
        /\ Active(k)
        /\ mk # Rec(k).maker
        /\ TakeOutcome(World, [TakeOf(k, u) EXCEPT !.maker = mk]).at = "maker"
        /\ TakeOutcome(World, [TakeOf(k, u) EXCEPT !.mint_b = MintA]).at = "mints"
        /\ TakeOutcome(World, TakeOf(k, u)).err = "Ok"

\* C7: every program-owned account holds a record, sits at the address found
\* for the record's (maker, seed), and stores the bump found with it, so the
\* signer rebuilt from the record is that account.
C7_EscrowAtDerivedAddress ==
    \A k \in PdaAddrs : Active(k) =>
        /\ Len(accounts[k].data) = EscrowLEN
        /\ Rec(k).maker \in Users
        /\ k = find_escrow_address(Rec(k).maker, Rec(k).seed).key
        /\ Rec(k).bump = find_escrow_address(Rec(k).maker, Rec(k).seed).bump
        /\ SignerFrom(Rec(k).maker, Rec(k).seed, Rec(k).bump) = {k}

\* a Make has created an escrow account
C7_Witness ==
    /\ last.op = "Make"
    /\ Active(last.escrow)
    /\ SignerFrom(last.actor, Rec(last.escrow).seed, Rec(last.escrow).bump)
          = {last.escrow}

\* C8: a Make for a (maker, seed) whose escrow is Active is rejected and
\* changes nothing, whatever its holders and payload.
C8_NoSecondMake ==
    \A mk \in Users, sd \in Seeds :
        Active(find_escrow_address(mk, sd).key) =>
            \A v \in HolderIds, src \in HolderIds, rc \in Amounts, am \in Amounts :
                LET o == MakeOutcome(World,
                            [MakeAccs0 EXCEPT !.signers = {mk}, !.maker = mk,
                                !.escrow = find_escrow_address(mk, sd).key,
                                !.mint_a = MintA, !.mint_b = MintB, !.vault = v,
                                !.maker_ata_a = src],
                            [len |-> MakeLEN, seed |-> sd, receive |-> rc, amount |-> am])
                IN  o.err # "Ok" /\ o.w = World

\* an escrow is Active, its maker still holds asset A, and the Make that
\* names it again is turned away because the account is in use
C8_Witness ==
    \E mk \in Users, sd \in Seeds :
        LET k == find_escrow_address(mk, sd).key
        IN  /\ Active(k)
            /\ tokens[Ata(mk, MintA)].amount > 0
            /\ MakeOutcome(World,
                   [MakeAccs0 EXCEPT !.signers = {mk}, !.maker = mk, !.escrow = k,
                       !.mint_b = MintB, !.vault = Custody(k),
                       !.maker_ata_a = Ata(mk, MintA)],
                   [MakeData0 EXCEPT !.seed = sd]).err = "AccountAlreadyInUse"

\* the Make instructions whose payload has receive = 0 or amount = 0
ZeroMakes ==
    {<<a, d>> \in
        [n : Counts(MakeAccountsLen), signers : SignerSets, maker : Users,
         escrow : EscrowAddrs, mint_a : {MintA}, mint_b : {MintB},
         maker_ata_a : {Ata(U1, MintA)}, vault : {NilHolder},
         token_program : ProgSlot(TOKEN_ID),
         associated_token_program : {ATA_ID}, system_program : {SYSTEM_ID}]
        \X [len : {MakeLEN}, seed : Seeds, receive : Amounts, amount : Amounts] :
        d.receive = 0 \/ d.amount = 0}

\* C9: every record has receive > 0; the decoder rejects a Make payload with
\* receive = 0 or amount = 0 as MalformedInput, and the Make that carries it
\* is rejected and changes nothing: as MalformedInput when its account list
\* binds, and with the error of the account binding when it does not.
C9_ZeroIsRejected ==
    /\ \A k \in PdaAddrs : Active(k) => Rec(k).receive > 0
    /\ \A z \in ZeroMakes :
          LET o == MakeOutcome(World, z[1], z[2])
              b == MakeAccounts_try_from(z[1])
          IN  /\ Category(MakeInstructionData_try_from(z[2])) = "MalformedInput"
              /\ o.err # "Ok"
              /\ o.w = World
              /\ b.err = "Ok" => Category(o.err) = "MalformedInput"
              /\ b.err # "Ok" => o.err = b.err

\* an escrow with receive > 0 is Active, and a Make by another user that
\* binds and asks for nothing in return is turned away at the payload
C9_Witness ==
    \E k \in PdaAddrs, mk \in Users :
        /\ Active(k)
        /\ Rec(k).receive > 0
        /\ ~Active(find_escrow_address(mk, 1).key)
        /\ MakeOutcome(World,
               [MakeAccs0 EXCEPT !.signers = {mk}, !.maker = mk,
                   !.escrow = find_escrow_address(mk, 1).key],
               [MakeData0 EXCEPT !.receive = 0]).at = "data"

\* the Make of maker mk, signed by sg, for seed sd into escrow slot ek, with
\* the three service slots tp, ap, sp, that offers 1 of asset A for 1 of B
MakeOf(mk, sg, sd, ek, tp, ap, sp) ==
    MakeOutcome(World,
        [MakeAccs0 EXCEPT !.signers = sg, !.maker = mk, !.escrow = ek,
            !.mint_b = MintB, !.vault = Ata(ek, MintA),
            !.maker_ata_a = Ata(mk, MintA), !.token_program = tp,
            !.associated_token_program = ap, !.system_program = sp],
        [MakeData0 EXCEPT !.seed = sd])

\* C21: a Make with nine accounts and a well-formed payload in which the
\* maker has not signed, or one of the three service slots is not the
\* service's identity, or the escrow slot is not the address found for
\* (maker, seed), is rejected as Unauthorized while binding, with no account
\* created and nothing moved.
C21_MakeMismatchUnauthorized ==
    \A mk \in Users, sg \in SignerSets, sd \in Seeds, ek \in PdaAddrs,
       tp \in ProgSlot(TOKEN_ID), ap \in ProgSlot(ATA_ID), sp \in ProgSlot(SYSTEM_ID) :
        LET o == MakeOf(mk, sg, sd, ek, tp, ap, sp)
        IN  (\/ mk \notin sg
             \/ tp # TOKEN_ID \/ ap # ATA_ID \/ sp # SYSTEM_ID
             \/ ek # find_escrow_address(mk, sd).key) =>
                /\ o.at \in {"signer", "token_program", "associated_token_program",
                             "system_program", "escrow_key"}
                /\ Rejected(o, "Unauthorized", World)

\* after a Make, another Make would succeed as it stands, and is turned away
\* once its maker does not sign, once a service slot is wrong and once its
\* escrow slot is another address
C21_Witness ==
    \E mk \in Users, sd \in Seeds, ek \in PdaAddrs :
        LET k == find_escrow_address(mk, sd).key
        IN  /\ last.op = "Make"
            /\ ek # k
            /\ MakeOf(mk, {mk}, sd, k, TOKEN_ID, ATA_ID, SYSTEM_ID).err = "Ok"
            /\ MakeOf(mk, Users \ {mk}, sd, k, TOKEN_ID, ATA_ID, SYSTEM_ID).at = "signer"
            /\ MakeOf(mk, {mk}, sd, k, OtherProgram, ATA_ID, SYSTEM_ID).at = "token_program"
            /\ MakeOf(mk, {mk}, sd, k, TOKEN_ID, OtherProgram, SYSTEM_ID).at
                  = "associated_token_program"
            /\ MakeOf(mk, {mk}, sd, k, TOKEN_ID, ATA_ID, OtherProgram).at = "system_program"
            /\ MakeOf(mk, {mk}, sd, ek, TOKEN_ID, ATA_ID, SYSTEM_ID).at = "escrow_key"

\* ============================================ statement-level execution
\* Make::process, Take::process and Refund::process as the list of their
\* statements that borrow account data, release a borrow or invoke a
\* sub-operation, in source order.
Borrow(slot, x) == [k |-> "borrow", slot |-> slot, x |-> x]
Drop(slot) == [k |-> "drop", slot |-> slot, x |-> ""]
Invoke(call) == [k |-> "invoke", slot |-> "", x |-> call]

\* Make::process: the two borrows are bindings that live to the end of the
\* function body
MakeCode ==
    <<Invoke("create_account"), Invoke("create_holder"),
      Borrow("escrow", "set_inner"), Borrow("mint_a", "decimals"),
      Invoke("deposit")>>

\* a Take that sends asset A out of custody before it collects asset B
TakeCode_a_first ==
    <<Borrow("escrow", "record"), Drop("escrow"),
      Borrow("vault", "amount"), Drop("vault"),
      Borrow("mint_a", "decimals"), Drop("mint_a"),
      Invoke("leg_a"),
      Borrow("mint_b", "decimals"), Drop("mint_b"),
      Invoke("leg_b"),
      Invoke("close_holder"), Invoke("close_escrow")>>

\* Take::process
TakeCode ==
    <<Borrow("escrow", "record"), Drop("escrow"),
      Borrow("mint_b", "decimals"), Drop("mint_b"),
      Invoke("leg_b"),
      Borrow("vault", "amount"), Drop("vault"),
      Borrow("mint_a", "decimals"), Drop("mint_a"),
      Invoke("leg_a"),
      Invoke("close_holder"), Invoke("close_escrow")>>

\* Refund::process
RefundCode ==
    <<Borrow("escrow", "record"), Drop("escrow"),
      Borrow("vault", "amount"), Drop("vault"),
      Borrow("mint_a", "decimals"), Drop("mint_a"),
      Invoke("leg_a"),
      Invoke("close_holder"), Invoke("close_escrow")>>

Code(op) ==
    CASE op = "Make" -> MakeCode
      [] op = "Take" -> TakeCode
      [] op = "Refund" -> RefundCode
      [] OTHER -> << >>

\* the statement the instruction in flight is at
Failed == 0 - 1
Running == run.pc \in 1..Len(Code(run.op))
Stmt == Code(run.op)[run.pc]

\* the locals of process: the record fields read, the custody balance read,
\* the decimals read last
Locals0 == [seed |-> 0, bump |-> 0, receive |-> 0, vault_amount |-> 0, decimals |-> 0]

\* try_borrow_data / try_borrow_mut_data: a shared borrow is refused while
\* the data is mutably borrowed, a mutable one while it is borrowed at all
BorrowMode(x) == IF x = "set_inner" THEN "mut" ELSE "shared"
BorrowRefused(borrows, acct, mode) ==
    \E b \in borrows : b[1] = acct /\ (mode = "mut" \/ b[2] = "mut")

\* what the statement reads or writes through the borrow it took: the
\* result, the ledger in flight and the locals after it
BorrowEffect(x, slot, a, d, w, loc) ==
    LET ld == EscrowLoad(w.accounts[a.escrow].data)
    IN  CASE x = "record" ->
               [err |-> ld.err, w |-> w,
                loc |-> [loc EXCEPT !.seed = ld.rec.seed, !.bump = ld.rec.bump,
                                    !.receive = ld.rec.receive]]
          [] x = "set_inner" ->
               [err |-> ld.err,
                w |-> [w EXCEPT !.accounts[a.escrow].data =
                          <<set_inner(d.seed, a.maker, a.mint_a, a.mint_b,
                                      d.receive, loc.bump)>>],
                loc |-> loc]
          [] x = "amount" ->
               [err |-> IF w.tokens[a.vault].exists THEN "Ok" ELSE "InvalidAccountData",
                w |-> w,
                loc |-> [loc EXCEPT !.vault_amount = w.tokens[a.vault].amount]]
          [] OTHER ->
               [err |-> IF a[slot] \in Mints THEN "Ok" ELSE "InvalidAccountData",
                w |-> w,
                loc |-> [loc EXCEPT !.decimals = Decimals(a[slot])]]

\* the accounts a sub-operation is handed, writable and read-only
CallAccounts(call, op, a) ==
    CASE call = "create_account" -> [wr |-> {a.maker, a.escrow}, ro |-> {}]
      [] call = "create_holder" ->
           [wr |-> {a.maker, a.vault}, ro |-> {a.escrow, a.mint_a}]
      [] call = "deposit" -> [wr |-> {a.maker_ata_a, a.vault}, ro |-> {a.mint_a, a.maker}]
      [] call = "leg_b" ->
           [wr |-> {a.taker_ata_b, a.maker_ata_b}, ro |-> {a.mint_b, a.taker}]
      [] call = "leg_a" ->
           [wr |-> {a.vault, IF op = "Take" THEN a.taker_ata_a ELSE a.maker_ata_a},
            ro |-> {a.mint_a, a.escrow}]
      [] call = "close_holder" -> [wr |-> {a.vault, a.maker}, ro |-> {a.escrow}]
      [] OTHER -> [wr |-> {a.escrow, a.maker}, ro |-> {}]

\* invoke / invoke_signed refuse an account that is handed writable while
\* its data is borrowed, or read-only while its data is mutably borrowed
InvokeRefused(borrows, ca) ==
    \E b \in borrows : b[1] \in ca.wr \/ (b[1] \in ca.ro /\ b[2] = "mut")

\* the sub-operation a statement invokes, on the ledger in flight
InvokeEffect(call, op, a, d, w, loc) ==
    LET signers == SignerFrom(a.maker, loc.seed, loc.bump)
        signed == a.signers \cup signers
    IN  CASE call = "create_account" ->
               IF signers = {} THEN Res("InvalidSeeds", w)
               ELSE CreateAccount(w, a.maker, a.escrow, RentEscrow, ESCROW_ID, signed)
          [] call = "create_holder" ->
               AtaCreate(w, a.maker, a.vault, a.escrow, a.mint_a, a.signers)
          [] call = "deposit" ->
               TransferChecked(w, a.maker_ata_a, a.mint_a, a.vault, a.maker,
                               d.amount, loc.decimals, a.signers)
          [] call = "leg_b" ->
               TransferChecked(w, a.taker_ata_b, a.mint_b, a.maker_ata_b, a.taker,
                               loc.receive, loc.decimals, a.signers)
          [] call = "leg_a" ->
               IF signers = {} THEN Res("InvalidSeeds", w)
               ELSE TransferChecked(w, a.vault, a.mint_a,
                        IF op = "Take" THEN a.taker_ata_a ELSE a.maker_ata_a,
                        a.escrow, loc.vault_amount, loc.decimals, signed)
          [] call = "close_holder" -> CloseAccount(w, a.vault, a.maker, a.escrow, signed)
          [] OTHER -> Transfer(w, a.escrow, a.maker, w.accounts[a.escrow].lamports,
                               signed)

\* once the instruction before it has returned or failed, an instruction that
\* binds starts at its first statement on a copy of the ledger; one that does
\* not bind commits nothing
Between == run.pc \in {0, Failed}
Start(op, b, a, d, loc) ==
    IF b.err # "Ok" THEN UNCHANGED vars
    ELSE /\ run' = [pc |-> 1, op |-> op, a |-> a, d |-> d, w |-> World,
                    loc |-> loc, borrows |-> {}, issued |-> << >>]
         /\ UNCHANGED <<wallet, accounts, tokens, last, deposited, vault, clock>>

\* Make::try_from, then the rent and the bump that process works out first
StepMakeBegin ==
    /\ Between
    /\ \E mk \in Users, sg \in SignerSets, sd \in Seeds, rc \in Amounts, am \in Amounts :
       \E src \in {Ata(mk, MintA), NilHolder} :
       LET ek == find_escrow_address(mk, sd)
           a == [MakeAccs0 EXCEPT !.signers = sg, !.maker = mk, !.escrow = ek.key,
                    !.mint_b = MintB, !.vault = Ata(ek.key, MintA), !.maker_ata_a = src]
           d == [MakeData0 EXCEPT !.seed = sd, !.receive = rc, !.amount = am]
       IN  Start("Make", Make_try_from(a, d), a, d,
                 [Locals0 EXCEPT !.seed = sd, !.bump = ek.bump, !.receive = rc])

\* Take::try_from
StepTakeBegin ==
    /\ Between
    /\ \E tk \in Users, sg \in SignerSets, ek \in PdaAddrs :
       \E sb \in {Ata(tk, MintB), NilHolder} :
       LET a == [TakeOf(ek, tk) EXCEPT !.signers = sg, !.taker_ata_b = sb]
       IN  Start("Take", TakeAccounts_try_from(World, a), a, << >>, Locals0)

\* Refund::try_from
StepRefundBegin ==
    /\ Between
    /\ \E sg \in SignerSets, ek \in PdaAddrs :
       LET a == [RefundOf(ek) EXCEPT !.signers = sg]
       IN  Start("Refund", RefundAccounts_try_from(World, a), a, << >>, Locals0)

\* an error leaves process: its bindings go out of scope and nothing it did
\* to the ledger is kept
Fail(issued) ==
    /\ run' = [run EXCEPT !.pc = Failed, !.w = << >>, !.loc = << >>,
                          !.borrows = {}, !.issued = issued]
    /\ UNCHANGED <<wallet, accounts, tokens, last, deposited, vault, clock>>

\* a statement that borrows the data of an account and reads or writes it
StepBorrow ==
    /\ Running
    /\ Stmt.k = "borrow"
    /\ LET acct == run.a[Stmt.slot]
           mode == BorrowMode(Stmt.x)
           e == BorrowEffect(Stmt.x, Stmt.slot, run.a, run.d, run.w, run.loc)
       IN  IF BorrowRefused(run.borrows, acct, mode) \/ e.err # "Ok"
           THEN Fail(run.issued)
           ELSE /\ run' = [run EXCEPT !.pc = @ + 1, !.w = e.w, !.loc = e.loc,
                                      !.borrows = @ \cup {<<acct, mode>>}]
                /\ UNCHANGED <<wallet, accounts, tokens, last, deposited, vault, clock>>

\* drop(..) of a borrow
StepDrop ==
    /\ Running
    /\ Stmt.k = "drop"
    /\ run' = [run EXCEPT !.pc = @ + 1,
                          !.borrows = {b \in @ : b[1] # run.a[Stmt.slot]}]
    /\ UNCHANGED <<wallet, accounts, tokens, last, deposited, vault, clock>>

\* a statement that invokes a sub-operation; the borrows held at that moment
\* are noted with the call
StepInvoke ==
    /\ Running
    /\ Stmt.k = "invoke"
    /\ LET ca == CallAccounts(Stmt.x, run.op, run.a)
           r == IF InvokeRefused(run.borrows, ca) THEN Res("AccountBorrowFailed", run.w)
                ELSE InvokeEffect(Stmt.x, run.op, run.a, run.d, run.w, run.loc)
           issued == Append(run.issued,
                            [call |-> Stmt.x, err |-> r.err, held |-> run.borrows])
       IN  IF r.err # "Ok" THEN Fail(issued)
           ELSE /\ run' = [run EXCEPT !.pc = @ + 1, !.w = r.w, !.issued = issued]
                /\ UNCHANGED <<wallet, accounts, tokens, last, deposited, vault, clock>>

\* process returns Ok: the ledger in flight is committed
StepReturn ==
    /\ run.pc = Len(Code(run.op)) + 1
    /\ run.pc > 1
    /\ wallet' = Purge(run.w).wallet
    /\ accounts' = Purge(run.w).accounts
    /\ tokens' = Purge(run.w).tokens
    /\ last' = [op |-> run.op, escrow |-> run.a.escrow,
                actor |-> IF run.op = "Take" THEN run.a.taker ELSE run.a.maker,
                signers |-> run.a.signers]
    /\ deposited' = [deposited EXCEPT ![run.a.escrow] =
                        IF run.op = "Make" THEN run.d.amount ELSE 0]
    /\ run' = Idle
    /\ UNCHANGED <<vault, clock>>

StepNext ==
    \/ StepMakeBegin
    \/ StepTakeBegin
    \/ StepRefundBegin
    \/ StepBorrow
    \/ StepDrop
    \/ StepInvoke
    \/ StepReturn

StepSpec == Init /\ [][StepNext]_vars

\* the calls the instruction in flight has issued
Issued == run.issued
IssuedAt(call) == {i \in 1..Len(Issued) : Issued[i].call = call}

\* C22: in a Take, the transfer of asset A out of custody, the close of the
\* custody holder and the transfer of the escrow balance are issued only
\* after the transfer of asset B has been issued and has succeeded, and a
\* failed transfer of asset B is the last call the Take issues.
C22_LegBBeforeLegA ==
    run.op = "Take" =>
        \A i \in 1..Len(Issued) :
            /\ Issued[i].call \in {"leg_a", "close_holder", "close_escrow"} =>
                  \E j \in 1..(i - 1) : Issued[j].call = "leg_b" /\ Issued[j].err = "Ok"
            /\ (Issued[i].call = "leg_b" /\ Issued[i].err # "Ok") => i = Len(Issued)

\* a Take has collected asset B and has then issued the transfer of asset A
C22_Witness ==
    /\ run.op = "Take"
    /\ IssuedAt("leg_b") # {}
    /\ IssuedAt("leg_a") # {}
    /\ run.w.tokens[run.a.maker_ata_b].amount > tokens[run.a.maker_ata_b].amount

\* C23: no call is issued while the instruction holds a borrow on the data
\* of an account.
C23_NoBorrowAcrossInvoke ==
    \A i \in 1..Len(Issued) : Issued[i].held = {}

\* ======================================================= vault properties
SecpVaultOf(k) == find_secp_address(k).key
PlainVaultOf(u) == find_vault_address(u).key

\* C11: the balance of the secp vault keyed by S goes down only in a Withdraw
\* whose next instruction is a signature record with one signature, verified
\* under S, over a message that names the signing payer and an expiry not
\* before the ledger time; the vault is then empty and the payer holds what
\* it held.
C11_SecpVaultLeavesOnlyBySigner ==
    [][\A v \in SecpAddrs :
         vault'[v].lamports < vault[v].lamports =>
            /\ last'.op = "SecpWithdraw"
            /\ last'.escrow = v
            /\ last'.ix.kind = "secp256r1"
            /\ last'.ix.num_signatures = 1
            /\ last'.ix.verifies
            /\ v = SecpVaultOf(last'.ix.signer)
            /\ MsgPayer(last'.ix.message) = last'.actor
            /\ last'.actor \in last'.signers
            /\ MsgExpiry(last'.ix.message) >= clock
            /\ vault'[v].lamports = 0
            /\ wallet'[last'.actor] = wallet[last'.actor] + vault[v].lamports]_vars

\* a secp Withdraw has emptied a vault that held value
C11_Witness ==
    /\ last.op = "SecpWithdraw"
    /\ last.amount > 0
    /\ last.escrow = SecpVaultOf(last.ix.signer)
    /\ vault[last.escrow].lamports = 0

\* a signature record with one verified signature of key pk
Record(pk, mp, ex, sh) ==
    [kind |-> "secp256r1", num_signatures |-> 1, signer |-> pk, verifies |-> TRUE,
     message |-> Message(mp, ex, sh)]
\* the outcome of the secp Withdraw that payer py signs against vault v with
\* bump bp, followed by instruction ix
SecpWithdrawOf(py, v, bp, ix) ==
    SecpWithdrawOutcome(VaultWorld,
        [SecpWithdrawAccs0 EXCEPT !.signers = {py}, !.payer = py, !.vault = v],
        [len |-> 1, bump |-> bp], ix, clock)
Funded(v) == vault[v].lamports > 0

\* C12: a secp Withdraw whose message carries an expiry earlier than the
\* ledger time is rejected as PreconditionFailed and changes nothing.
C12_ExpiredIsPreconditionFailed ==
    \A py \in Users, k \in SecpKeys, bp \in Bumps, ex \in Times,
       sh \in {"exact", "long"} :
        (Funded(SecpVaultOf(k)) /\ ex < clock) =>
            Rejected(SecpWithdrawOf(py, SecpVaultOf(k), bp, Record(k, py, ex, sh)),
                     "PreconditionFailed", VaultWorld)

\* C13: a secp Withdraw whose message names a payer other than the payer of
\* the transaction is rejected as Unauthorized and changes nothing, whatever
\* the expiry in the message and the bump in the payload.
C13_OtherPayerUnauthorized ==
    \A py \in Users, mp \in Users, k \in SecpKeys, bp \in Bumps, ex \in Times,
       sh \in {"exact", "long"} :
        (Funded(SecpVaultOf(k)) /\ mp # py) =>
            Rejected(SecpWithdrawOf(py, SecpVaultOf(k), bp, Record(k, mp, ex, sh)),
                     "Unauthorized", VaultWorld)

\* a funded vault is asked for by a payer the message does not name, with an
\* expiry that has passed, and the payer comparison turns the Withdraw away
C13_Witness ==
    \E k \in SecpKeys :
        /\ Funded(SecpVaultOf(k))
        /\ clock > 0
        /\ SecpWithdrawOf(U1, SecpVaultOf(k), find_secp_address(k).bump,
                          Record(k, U2, 0, "exact")).at = "payer"
        /\ SecpWithdrawOf(U2, SecpVaultOf(k), find_secp_address(k).bump,
                          Record(k, U2, clock, "exact")).err = "Ok"

\* C14: a secp Withdraw is rejected as MalformedInput, and changes nothing,
\* when the record reports a number of signatures other than one or when its
\* message is shorter than 40 bytes; a longer message is read as the 40-byte
\* message it begins with.
C14_RecordShape ==
    \A py \in Users, mp \in Users, k \in SecpKeys, bp \in Bumps, ex \in Times :
        Funded(SecpVaultOf(k)) =>
            /\ \A ns \in {0, 2}, sh \in Shapes :
                  Rejected(SecpWithdrawOf(py, SecpVaultOf(k), bp,
                              [Record(k, mp, ex, sh) EXCEPT !.num_signatures = ns]),
                           "MalformedInput", VaultWorld)
            /\ Rejected(SecpWithdrawOf(py, SecpVaultOf(k), bp, Record(k, mp, ex, "short")),
                        "MalformedInput", VaultWorld)
            /\ SecpWithdrawOf(py, SecpVaultOf(k), bp, Record(k, mp, ex, "long"))
                  = SecpWithdrawOf(py, SecpVaultOf(k), bp, Record(k, mp, ex, "exact"))

\* a funded vault would pay out on a 41-byte message, and turns away the
\* 39-byte message and the record with two signatures
C14_Witness ==
    \E k \in SecpKeys, py \in Users :
        LET v == SecpVaultOf(k)
            bp == find_secp_address(k).bump
        IN  /\ Funded(v)
            /\ SecpWithdrawOf(py, v, bp, Record(k, py, clock, "long")).err = "Ok"
            /\ SecpWithdrawOf(py, v, bp, Record(k, py, clock, "short")).at = "message_len"
            /\ SecpWithdrawOf(py, v, bp,
                    [Record(k, py, clock, "exact") EXCEPT !.num_signatures = 2]).at
                  = "num_signatures"

\* C15: a secp Withdraw whose payload names a bump other than the one found
\* for the signer's key passes the account binding and the reading of the
\* record, fails at the signed transfer, and changes nothing.
C15_WrongBumpFailsAtTransfer ==
    \A py \in Users, k \in SecpKeys, bp \in Bumps, ex \in Times,
       sh \in {"exact", "long"} :
        (Funded(SecpVaultOf(k)) /\ bp # find_secp_address(k).bump /\ ex >= clock) =>
            LET o == SecpWithdrawOf(py, SecpVaultOf(k), bp, Record(k, py, ex, sh))
            IN  /\ o.at = "transfer"
                /\ o.err # "Ok"
                /\ o.w = VaultWorld

\* a funded vault is asked for with a bump that derives another address, and
\* the transfer lacks the vault's signature; with the bump found it pays out
C15_Witness ==
    \E k \in SecpKeys, py \in Users, bp \in Bumps :
        /\ Funded(SecpVaultOf(k))
        /\ bp # find_secp_address(k).bump
        /\ SecpSignerFrom(k, bp) # {}
        /\ SecpWithdrawOf(py, SecpVaultOf(k), bp, Record(k, py, clock, "exact")).err
              = "MissingRequiredSignature"
        /\ SecpWithdrawOf(py, SecpVaultOf(k), find_secp_address(k).bump,
                          Record(k, py, clock, "exact")).err = "Ok"

\* the outcome of the secp Deposit of am that payer py signs into vault v for
\* key pk
SecpDepositOf(py, v, pk, am) ==
    SecpDepositOutcome(VaultWorld,
        [SecpDepositAccs0 EXCEPT !.signers = {py}, !.payer = py, !.vault = v],
        [SecpDepositData0 EXCEPT !.pubkey = pk, !.amount = am])

\* C16: a secp Deposit succeeds only into the address found for the key in
\* its payload, while that account is owned by the system service and holds
\* nothing, and with its payer signing; into any other empty system-owned
\* account it is rejected as Unauthorized and changes nothing.
C16_SecpDepositBinding ==
    /\ [][last'.op = "SecpDeposit" =>
            /\ last'.escrow = SecpVaultOf(last'.ix.signer)
            /\ vault[last'.escrow].owner = SYSTEM_ID
            /\ vault[last'.escrow].lamports = 0
            /\ last'.actor \in last'.signers]_vars
    /\ [](\A py \in Users, pk \in SecpKeys, v \in VaultAccts, am \in Amounts :
            (vault[v].owner = SYSTEM_ID /\ vault[v].lamports = 0
                /\ v # SecpVaultOf(pk)) =>
                Rejected(SecpDepositOf(py, v, pk, am), "Unauthorized", VaultWorld))

\* a secp Deposit has funded the vault of the key it named, and the same
\* payer is turned away from the empty vault of the other key
C16_Witness ==
    /\ last.op = "SecpDeposit"
    /\ Funded(last.escrow)
    /\ \E k \in SecpKeys :
          /\ ~Funded(SecpVaultOf(k))
          /\ SecpDepositOf(last.actor, SecpVaultOf(k), last.ix.signer, 0).at = "key"

\* the outcome of the plain-vault Withdraw that sg signs with ow in the owner
\* slot against vault v
VaultWithdrawOf(ow, sg, v) ==
    VaultWithdrawOutcome(VaultWorld,
        [VaultAccs0 EXCEPT !.signers = sg, !.owner = ow, !.vault = v])

\* C17: the balance of the plain vault of owner O goes down only in a
\* Withdraw that names O as owner and that O signs, which empties the vault
\* and pays all of it to O; a Withdraw against O's vault in which O is not the
\* signing owner does not succeed, and a Withdraw that O signs against O's
\* empty vault is rejected as PreconditionFailed; neither changes anything.
C17_PlainVaultLeavesOnlyToOwner ==
    /\ [][\A u \in Users :
            vault'[PlainVaultOf(u)].lamports < vault[PlainVaultOf(u)].lamports =>
                /\ last'.op = "Withdraw"
                /\ last'.escrow = PlainVaultOf(u)
                /\ last'.actor = u
                /\ u \in last'.signers
                /\ vault'[PlainVaultOf(u)].lamports = 0
                /\ wallet'[u] = wallet[u] + vault[PlainVaultOf(u)].lamports]_vars
    /\ [](\A u \in Users, ow \in Users, sg \in SignerSets :
            LET o == VaultWithdrawOf(ow, sg, PlainVaultOf(u))
            IN  /\ (Funded(PlainVaultOf(u)) /\ (ow # u \/ u \notin sg)) =>
                      Rejected(o, "Unauthorized", VaultWorld)
                /\ (~Funded(PlainVaultOf(u)) /\ ow = u /\ u \in sg) =>
                      Rejected(o, "PreconditionFailed", VaultWorld))

\* an owner has withdrawn a funded plain vault while another owner's vault
\* is still funded
C17_Witness ==
    /\ last.op = "Withdraw"
    /\ last.amount > 0
    /\ ~Funded(last.escrow)
    /\ last.escrow = PlainVaultOf(last.actor)
    /\ \E u \in Users : u # last.actor /\ Funded(PlainVaultOf(u))

\* the outcome of the plain-vault Deposit of am that owner ow signs into
\* vault v
VaultDepositOf(ow, v, am) ==
    VaultDepositOutcome(VaultWorld,
        [VaultAccs0 EXCEPT !.signers = {ow}, !.owner = ow, !.vault = v],
        [VaultData0 EXCEPT !.amount = am])

\* C18: a plain-vault Deposit that its owner signs into the owner's own
\* vault while it holds value is rejected as PreconditionFailed; into a vault
\* account the system service does not own, or into an empty account that is
\* not at the address found for the owner, it is rejected as Unauthorized;
\* and whatever the reason a Deposit is rejected for, the wallets and the
\* vaults are left as they were.
C18_PlainDepositRejections ==
    \A ow \in Users, v \in VaultAccts, am \in Amounts :
        LET o == VaultDepositOf(ow, v, am)
        IN  /\ (v = PlainVaultOf(ow) /\ Funded(v)) =>
                  Rejected(o, "PreconditionFailed", VaultWorld)
            /\ vault[v].owner # SYSTEM_ID => Rejected(o, "Unauthorized", VaultWorld)
            /\ (vault[v].owner = SYSTEM_ID /\ ~Funded(v) /\ v # PlainVaultOf(ow)) =>
                  Rejected(o, "Unauthorized", VaultWorld)
            /\ o.err # "Ok" => o.w = VaultWorld

\* an owner's plain vault holds value, so a second Deposit meets a funded
\* vault, while the other owner's vault is empty and at another address
C18_Witness ==
    \E ow \in Users, u \in Users :
        /\ u # ow
        /\ last.op = "Deposit"
        /\ last.escrow = PlainVaultOf(ow)
        /\ Funded(PlainVaultOf(ow))
        /\ VaultDepositOf(ow, PlainVaultOf(ow), 1).at = "funded"
        /\ VaultDepositOf(ow, PlainVaultOf(u), 1).at = "key"
        /\ VaultDepositOf(ow, ForeignAcct, 1).at = "owner"

\* C19: in both vaults a successful Deposit finds its vault empty and leaves
\* in it a nonzero balance equal to the amount deposited, and a successful
\* Withdraw finds its vault funded and leaves it empty.
C19_VaultCycle ==
    [][/\ last'.op \in {"Deposit", "SecpDeposit"} =>
            /\ vault[last'.escrow].lamports = 0
            /\ vault'[last'.escrow].lamports = last'.amount
            /\ vault'[last'.escrow].lamports > 0
       /\ last'.op \in {"Withdraw", "SecpWithdraw"} =>
            /\ vault[last'.escrow].lamports > 0
            /\ vault'[last'.escrow].lamports = 0]_vars

\* the account counts next to n that are not n
WrongCounts(n) == Counts(n) \ {n}

\* a signature record with one signature under pk, verified, over a message
\* of exactly the two fields that names payer py and an expiry not yet passed
GoodRecord(pk, py) == Record(pk, py, MaxClock, "exact")

\* C20: every instruction rejects an account list one shorter or one longer
\* than its count (Make 9, Take 12, Refund 7, plain Deposit and Withdraw 3,
\* secp Deposit 3, secp Withdraw 4) as NotFound at the length test, whoever
\* signs, whatever accounts fill the slots and whatever the payload, and
\* changes nothing.
C20_WrongLengthIsNotFound ==
    \A sg \in SignerSets, u \in Users :
        /\ \A n \in WrongCounts(MakeAccountsLen), ln \in Counts(MakeLEN) :
              LET o == MakeOutcome(World,
                          [MakeAccs0 EXCEPT !.n = n, !.signers = sg, !.maker = u],
                          [MakeData0 EXCEPT !.len = ln])
              IN  o.at = "len" /\ Rejected(o, "NotFound", World)
        /\ \A n \in WrongCounts(TakeAccountsLen), ek \in PdaAddrs :
              LET o == TakeOutcome(World,
                          [TakeAccs0 EXCEPT !.n = n, !.signers = sg, !.taker = u,
                                            !.escrow = ek])
              IN  o.at = "len" /\ Rejected(o, "NotFound", World)
        /\ \A n \in WrongCounts(RefundAccountsLen), ek \in PdaAddrs :
              LET o == RefundOutcome(World,
                          [RefundAccs0 EXCEPT !.n = n, !.signers = sg, !.maker = u,
                                              !.escrow = ek])
              IN  o.at = "len" /\ Rejected(o, "NotFound", World)
        /\ \A n \in WrongCounts(VaultAccountsLen), v \in VaultAccts :
              LET a == [VaultAccs0 EXCEPT !.n = n, !.signers = sg, !.owner = u,
                                          !.vault = v]
                  od == VaultDepositOutcome(VaultWorld, a, VaultData0)
                  ow == VaultWithdrawOutcome(VaultWorld, a)
              IN  /\ od.at = "len" /\ Rejected(od, "NotFound", VaultWorld)
                  /\ ow.at = "len" /\ Rejected(ow, "NotFound", VaultWorld)
        /\ \A n \in WrongCounts(SecpDepositAccountsLen), v \in VaultAccts :
              LET o == SecpDepositOutcome(VaultWorld,
                          [SecpDepositAccs0 EXCEPT !.n = n, !.signers = sg,
                                                   !.payer = u, !.vault = v],
                          SecpDepositData0)
              IN  o.at = "len" /\ Rejected(o, "NotFound", VaultWorld)
        /\ \A n \in WrongCounts(SecpWithdrawAccountsLen), v \in VaultAccts,
               pk \in SecpKeys, bp \in Bumps :
              LET o == SecpWithdrawOutcome(VaultWorld,
                          [SecpWithdrawAccs0 EXCEPT !.n = n, !.signers = sg,
                                                    !.payer = u, !.vault = v],
                          [SecpWithdrawData0 EXCEPT !.bump = bp],
                          GoodRecord(pk, u), clock)
              IN  o.at = "len" /\ Rejected(o, "NotFound", VaultWorld)

\* a plain vault and a secp vault are funded and their Withdraws would
\* succeed with the right number of accounts, yet are turned away at the
\* length test with one account more
C20_Witness ==
    \E u \in Users, pk \in SecpKeys :
        /\ Funded(PlainVaultOf(u))
        /\ Funded(SecpVaultOf(pk))
        /\ VaultWithdrawOf(u, {u}, PlainVaultOf(u)).err = "Ok"
        /\ VaultWithdrawOutcome(VaultWorld,
               [VaultAccs0 EXCEPT !.n = VaultAccountsLen + 1, !.signers = {u},
                                  !.owner = u, !.vault = PlainVaultOf(u)]).at = "len"
        /\ SecpWithdrawOf(u, SecpVaultOf(pk), find_secp_address(pk).bump,
                          GoodRecord(pk, u)).err = "Ok"
        /\ SecpWithdrawOutcome(VaultWorld,
               [SecpWithdrawAccs0 EXCEPT !.n = SecpWithdrawAccountsLen + 1,
                                         !.signers = {u}, !.payer = u,
                                         !.vault = SecpVaultOf(pk)],
               [SecpWithdrawData0 EXCEPT !.bump = find_secp_address(pk).bump],
               GoodRecord(pk, u), clock).at = "len"

\* the expiry times written into messages: before the ledger's first time,
\* each time the ledger reaches, one past its last, and one that needs a
\* second byte
ExpirySamples == {0 - 2, 0 - 1} \cup 0..(MaxClock + 1) \cup {ByteRange + 1}

\* the outcome of the Withdraw of the funded vault of key pk by payer py with
\* the found bump and a one-signature record under pk over (py, ex)
ExpiryGate(pk, py, ex) ==
    SecpWithdrawOf(py, SecpVaultOf(pk), find_secp_address(pk).bump,
                   Record(pk, py, ex, "exact"))

\* C24: the eight expiry bytes of the message are read least significant
\* byte first as a signed integer, so the bytes written for a negative time
\* are read as that negative time; a Withdraw that is otherwise in order
\* passes the expiry gate exactly when the ledger time is at most the expiry:
\* at now = expiry it succeeds, from now = expiry + 1 on it is rejected at
\* the gate and changes nothing.
C24_ExpiryGate ==
    /\ i64_from_le_bytes([i \in 1..MsgExpiryLEN |-> ByteRange - 1]) = 0 - 1
    /\ \A ex \in ExpirySamples :
          /\ Len(to_le_bytes(ex, MsgExpiryLEN)) = MsgExpiryLEN
          /\ i64_from_le_bytes(to_le_bytes(ex, MsgExpiryLEN)) = ex
          /\ ex < 0 => to_le_bytes(ex, MsgExpiryLEN)[MsgExpiryLEN] = ByteRange - 1
          /\ \A pk \in SecpKeys, py \in Users :
                Funded(SecpVaultOf(pk)) =>
                    LET o == ExpiryGate(pk, py, ex)
                    IN  /\ clock <= ex => o.err = "Ok"
                        /\ clock > ex => (o.at = "expiry" /\ o.w = VaultWorld)

\* the ledger time has moved on, a secp vault is funded, and of three
\* Withdraws of it the one that expires now succeeds while the one that
\* expired one tick ago and the one with a negative expiry are turned away
C24_Witness ==
    \E pk \in SecpKeys, py \in Users :
        /\ clock > 0
        /\ Funded(SecpVaultOf(pk))
        /\ ExpiryGate(pk, py, clock).err = "Ok"
        /\ ExpiryGate(pk, py, clock - 1).at = "expiry"
        /\ ExpiryGate(pk, py, 0 - 1).at = "expiry"

\* the Withdraw that committed last was that of the vault of key pk by payer
\* py under a one-signature record of pk over the message (py, ex)
WithdrawnUnder(pk, py, ex) ==
    /\ last.op = "SecpWithdraw"
    /\ last.escrow = SecpVaultOf(pk)
    /\ last.actor = py
    /\ last.ix = Record(pk, py, ex, "exact")

\* the Deposit that committed last funded the vault of key pk
FundedAgain(pk) ==
    /\ last.op = "SecpDeposit"
    /\ last.escrow = SecpVaultOf(pk)
    /\ Funded(SecpVaultOf(pk))

\* the Withdraw of the vault of key pk by payer py under the one-signature
\* record of pk over the message (py, ex), with the bump found for pk
ReplayOf(pk, py, ex) ==
    SecpWithdrawOf(py, SecpVaultOf(pk), find_secp_address(pk).bump,
                   Record(pk, py, ex, "exact"))

\* C25: once a secp Withdraw has succeeded under a record of signer S over a
\* message (payer, expiry), and the next instruction has funded the vault of
\* S again, a Withdraw under a record with that signer and that message is
\* refused.
C25_AuthorizationUsedOnce ==
    [][\A pk \in SecpKeys, py \in Users, ex \in Times :
          (WithdrawnUnder(pk, py, ex) /\ FundedAgain(pk)') =>
              (ReplayOf(pk, py, ex).err # "Ok")']_vars

\* the Withdraw by payer py that follows the Deposit committed last: it
\* supplies the bump found for the Deposit's key and a one-signature record
\* under that key over (py, ex)
WithdrawAfterDeposit(py, ex) ==
    SecpWithdrawOf(py, last.escrow, find_secp_address(last.ix.signer).bump,
                   Record(last.ix.signer, py, ex, "exact"))

\* what the claim asks of that Withdraw: it succeeds, pays the amount
\* deposited to the payer and leaves the vault empty
PaysDeposit(o, py) ==
    /\ o.err = "Ok"
    /\ o.w.wallet[py] = wallet[py] + last.amount
    /\ o.w.vault[last.escrow].lamports = 0

====
